---- MODULE Spec2Model ----
(***************************************************************************)
(* State-machine model of nanoclaw's message-routing fabric:               *)
(*   - the Telegram connector's inbound handlers (channels/telegram.py),   *)
(*   - the TCP message bus, server and client halves (bus/network.py),     *)
(*   - the Channel Manager's start supervision and outbound dispatcher     *)
(*     (channels/manager.py),                                              *)
(*   - the gateway's run task (cli/commands.py).                           *)
(* Python strings built by concatenation are modelled as tuples of their   *)
(* parts: str(123) is <<123>>, "123|alice" is <<123, "alice">>,            *)
(* "telegram:42" is <<"telegram", 42>>.                                    *)
(***************************************************************************)
EXTENDS Integers, Sequences, FiniteSets, TLC

None == "None"
\* an absent user or chat of an update (ids are integers)
NoId == 0

(***************************************************************************)
(* Bounds of the model.                                                    *)
(***************************************************************************)
MaxInbound == 1
MaxReplies == 1

(***************************************************************************)
(* State.                                                                  *)
(***************************************************************************)
VARIABLES
    allow_from,         \* TelegramConfig.allow_from held by the connector
    saved_allow_from,   \* allow_from of the configuration file (load_config / save_config)
    bot_username,       \* TelegramChannel._bot_username
    has_session_manager,\* TelegramChannel.session_manager is not None
    chat_ids,           \* TelegramChannel._chat_ids: sender_id -> chat_id
    typing_tasks,       \* TelegramChannel._typing_tasks: chat ids with a typing task
    bus_inbound,        \* InboundMessages the connector published to the bus
    replies,            \* Telegram API calls that answer the sender
    sessions,           \* SessionManager: session_key -> messages
    saved_sessions,     \* the session files SessionManager.save wrote
    event               \* the update the connector handled last

tgVars == <<allow_from, saved_allow_from, bot_username, has_session_manager,
            chat_ids, typing_tasks, bus_inbound, replies, sessions, saved_sessions,
            event>>

VARIABLES
    server_state,    \* NetworkBusServer: "init", "serving" (_running, listening), "stopped"
    _clients,        \* NetworkBusServer._clients: list of writers, one per client
    _inbound,        \* NetworkBusServer._inbound queue
    handler,         \* per connection, the _handle_client task: "none", "reading", "done"
    sconn, cconn,    \* the two ends of each connection
    c2s, s2c,        \* frames in flight, gateway -> agent and agent -> gateway
    _outbound,       \* NetworkBusClient._outbound queue, per client
    _recv_task,      \* NetworkBusClient._recv_task: "none", "running", "ended", "cancelled"
    pub,             \* the frame of the publish_outbound call in progress
    sent,            \* per client, the messages publish_inbound wrote on an up connection
    consumed,        \* what consume_inbound returned, tagged with the connection it came by
    delivered,       \* per client, what consume_outbound returned
    published,       \* the messages passed to publish_outbound, in call order
    inbound_calls,   \* the publish_inbound calls made so far and how each ended
    gw_run           \* per gateway, its run task and the dispatcher's polls

busVars == <<server_state, _clients, _inbound, handler, sconn, cconn, c2s, s2c,
             _outbound, _recv_task, pub, sent, consumed, delivered, published,
             inbound_calls, gw_run>>

VARIABLES
    channels,        \* ChannelManager.channels: the names of the registered connectors
    outbound_queue,  \* the outbound queue of the bus the dispatcher consumes from
    queued,          \* every message put on that queue so far
    dispatcher,      \* the _dispatch_outbound task
    send_calls,      \* the connector.send calls made so far
    start_task,      \* per connector, the _start_channel task
    stop_task        \* the stop_all call: where it is and the stop() calls it made

mgrVars == <<channels, outbound_queue, queued, dispatcher, send_calls, start_task,
             stop_task>>

VARIABLES
    messages,        \* the message list of the session the agent loop works on
    keep_recent,     \* the keep_recent parameter of compaction
    original,        \* the message list before the first compaction
    compactions,     \* the compactions applied to the session so far
    last_call        \* the last call of a compaction function, with what it returned

cmpVars == <<messages, keep_recent, original, compactions, last_call>>

VARIABLES
    event_call       \* the last to_dict / from_dict call on an event type, with its result

evVars == <<event_call>>

VARIABLES
    frame_reader     \* a _recv_msg call on a stream: where it is and what it read

rdVars == <<frame_reader>>

VARIABLES
    cron_runs        \* the on_cron_job calls so far: the job, the agent's response
                     \* and the OutboundMessage published, if any

cronVars == <<cron_runs>>

VARIABLES
    agent_inbound,   \* MessageBus inbound queue: the published messages not yet consumed
    agent_published, \* every InboundMessage published to that bus, in publish order
    agent_sessions,  \* the sessions the Agent Loop works on: session_key -> messages
    turn,            \* per task that runs turns on the Agent Loop, the turn in progress
    turns,           \* the turns started so far, in order, and how each ended
    agent_outbound   \* the OutboundMessages the Agent Loop published

agVars == <<agent_inbound, agent_published, agent_sessions, turn, turns, agent_outbound>>

VARIABLES
    clock,           \* the Cron Service's clock, in ms
    store,           \* the job store: id -> CronJob
    last_wake,       \* the scheduler's last wake-up: its time, what was due, what it fired
    scheduled_fires  \* per job, how often the scheduler fired it

svcVars == <<clock, store, last_wake, scheduled_fires>>

VARIABLES
    split_call       \* the last _split_message call, with what it returned

splVars == <<split_call>>

VARIABLES
    agent_service,   \* what the agent port does with a connection attempt
    gateway,         \* _run_gateway_foreground: where it is and what it has created
    gateway_modes    \* how the gateway's earlier runs ended

gwVars == <<agent_service, gateway, gateway_modes>>

VARIABLES
    stream,          \* per writer, the bytes its transport was given to send
    send_task,       \* per task that calls _send_msg, where it is
    frames_written   \* per writer, the payloads of the _send_msg calls, in call order

wrVars == <<stream, send_task, frames_written>>

VARIABLES
    _app,            \* TelegramChannel._app: the Application, or None
    _typing_tasks,   \* TelegramChannel._typing_tasks: chat_id -> typing task
    typing_loop,     \* per typing task created, its chat and how far it is
    stop_pc,         \* TelegramChannel.stop(): "none", "stopping", "done"
    typing_event     \* the last call that touched the typing tasks

tyVars == <<_app, _typing_tasks, typing_loop, stop_pc, typing_event>>

\* the variables of the other components, which a component's steps leave alone
notTelegram == <<busVars, mgrVars, cmpVars, evVars, rdVars, cronVars, agVars, svcVars, splVars, gwVars, wrVars, tyVars>>
notBus == <<tgVars, mgrVars, cmpVars, evVars, rdVars, cronVars, agVars, svcVars, splVars, gwVars, wrVars, tyVars>>
notManager == <<tgVars, busVars, cmpVars, evVars, rdVars, cronVars, agVars, svcVars, splVars, gwVars, wrVars, tyVars>>
notCompaction == <<tgVars, busVars, mgrVars, evVars, rdVars, cronVars, agVars, svcVars, splVars, gwVars, wrVars, tyVars>>
notEvents == <<tgVars, busVars, mgrVars, cmpVars, rdVars, cronVars, agVars, svcVars, splVars, gwVars, wrVars, tyVars>>
notReader == <<tgVars, busVars, mgrVars, cmpVars, evVars, cronVars, agVars, svcVars, splVars, gwVars, wrVars, tyVars>>
notCron == <<tgVars, busVars, mgrVars, cmpVars, evVars, rdVars, agVars, svcVars, splVars, gwVars, wrVars, tyVars>>
notAgent == <<tgVars, busVars, mgrVars, cmpVars, evVars, rdVars, cronVars, svcVars, splVars, gwVars, wrVars, tyVars>>
notService == <<tgVars, busVars, mgrVars, cmpVars, evVars, rdVars, cronVars, agVars, splVars, gwVars, wrVars, tyVars>>
notSplit == <<tgVars, busVars, mgrVars, cmpVars, evVars, rdVars, cronVars, agVars, svcVars, gwVars, wrVars, tyVars>>
notGateway == <<tgVars, busVars, mgrVars, cmpVars, evVars, rdVars, cronVars, agVars, svcVars, splVars, wrVars, tyVars>>
notWriter == <<tgVars, busVars, mgrVars, cmpVars, evVars, rdVars, cronVars, agVars, svcVars, splVars, gwVars, tyVars>>
notTyping == <<tgVars, busVars, mgrVars, cmpVars, evVars, rdVars, cronVars, agVars, svcVars, splVars, gwVars, wrVars>>
vars == <<tgVars, busVars, mgrVars, cmpVars, evVars, rdVars, cronVars, agVars, svcVars, splVars, gwVars, wrVars, tyVars>>

(***************************************************************************)
(* The Telegram world the connector is exercised in.                       *)
(***************************************************************************)
UserIds == {123, 999}
GroupChat == 0 - 1001
ChatIds == UserIds \cup {GroupChat}
username(uid) == IF uid = 123 THEN "alice" ELSE None
ChatType(chat) == IF chat = GroupChat THEN "group" ELSE "private"
BotTag == "@nanoclaw_bot"
Texts == {<<"hi">>, <<BotTag>>}
\* the configurations the connector is run with: allow_from, the bot's username,
\* whether a session manager was passed to the connector
TelegramSetups ==
    {[allow_from |-> {<<123>>}, bot_username |-> "nanoclaw_bot", session_manager |-> TRUE],
     [allow_from |-> {<<123, "alice">>, <<GroupChat>>}, bot_username |-> "nanoclaw_bot",
      session_manager |-> FALSE],
     [allow_from |-> {<<999>>}, bot_username |-> None, session_manager |-> TRUE]}
NoSession == <<"NoSession">>

(***************************************************************************)
(* Pure helpers of the connector.                                          *)
(***************************************************************************)
str(n) == <<n>>

\* update.effective_user is not None
has_user(uid) == uid # NoId

\* sender_id = str(user.id), or f"{sender_id}|{user.username}" when the user has a username
sender_id_of(uid) ==
    IF username(uid) # None THEN <<uid, username(uid)>> ELSE str(uid)

\* BaseChannel.is_allowed: literal membership of the chat id, the sender id
\* or the sender id with its username in allow_from
is_allowed(sender_id, chat_id) ==
    \/ sender_id \in allow_from
    \/ str(sender_id[1]) \in allow_from
    \/ chat_id \in allow_from

\* TelegramChannel._is_mentioned
_is_mentioned(text) ==
    /\ bot_username # None
    /\ \E i \in 1..Len(text) : text[i] = "@" \o bot_username

\* re.sub(rf"@{bot_username}\s*", "", text).strip() of _on_message
RECURSIVE strip_mention(_)
strip_mention(text) ==
    IF text = <<>> THEN <<>>
    ELSE IF bot_username # None /\ Head(text) = "@" \o bot_username
         THEN strip_mention(Tail(text))
         ELSE <<Head(text)>> \o strip_mention(Tail(text))

\* the content _on_message builds from the text parts
content_of(text) ==
    IF strip_mention(text) # <<>> THEN strip_mention(text) ELSE <<"[empty message]">>

\* the authorization gate of _on_message: groups need the mention and the
\* allow list, private chats the allow list
message_accepted_nocheck(chat_type, text, sender_id, chat_id) ==
    IF chat_type # "private" THEN _is_mentioned(text) ELSE TRUE
message_accepted(chat_type, text, sender_id, chat_id) ==
    IF chat_type # "private"
    THEN _is_mentioned(text) /\ is_allowed(sender_id, chat_id)
    ELSE is_allowed(sender_id, chat_id)

\* TelegramChannel._check_command_allowed
_check_command_allowed(uid, chat) ==
    /\ has_user(uid)
    /\ is_allowed(sender_id_of(uid), str(chat))

\* BaseChannel._handle_message: build the InboundMessage and publish it
_handle_message(sender_id, chat_id, content, metadata) ==
    bus_inbound' = Append(bus_inbound,
        [channel |-> "telegram", sender_id |-> sender_id, chat_id |-> chat_id,
         content |-> content, metadata |-> metadata])

Event(kind, uid, chat, text) ==
    [kind |-> kind, user |-> uid, chat |-> chat, text |-> text]

(***************************************************************************)
(* Handlers of the connector.                                              *)
(***************************************************************************)
\* TelegramChannel._on_message
_on_message(uid, chat, text) ==
    /\ UNCHANGED notTelegram
    /\ event' = Event("message", uid, chat, text)
    /\ IF has_user(uid) /\ message_accepted(ChatType(chat), text, sender_id_of(uid), str(chat))
       THEN /\ Len(bus_inbound) < MaxInbound
            /\ chat_ids' = [chat_ids EXCEPT ![sender_id_of(uid)] = chat]
            /\ typing_tasks' = typing_tasks \cup {str(chat)}
            /\ _handle_message(sender_id_of(uid), str(chat), content_of(text),
                               [is_group |-> ChatType(chat) # "private", from_button |-> FALSE])
            /\ UNCHANGED <<replies, sessions, saved_sessions, saved_allow_from>>
       ELSE UNCHANGED <<chat_ids, typing_tasks, bus_inbound, replies, sessions, saved_sessions,
                        saved_allow_from>>
    /\ UNCHANGED <<allow_from, bot_username, has_session_manager>>

\* TelegramChannel._on_callback_query
_on_callback_query(uid, chat, data, edit_ok) ==
    /\ UNCHANGED notTelegram
    /\ event' = Event("callback_query", uid, chat, data)
    /\ IF has_user(uid) /\ is_allowed(sender_id_of(uid), str(chat))
       THEN /\ Len(bus_inbound) < MaxInbound
            /\ Len(replies) < MaxReplies
            /\ replies' = Append(replies,
                   [chat |-> chat, kind |-> IF edit_ok THEN "answer+edit" ELSE "answer"])
            /\ typing_tasks' = typing_tasks \cup {str(chat)}
            /\ _handle_message(sender_id_of(uid), str(chat), data,
                               [is_group |-> FALSE, from_button |-> TRUE])
            /\ UNCHANGED <<chat_ids, sessions, saved_sessions, saved_allow_from>>
       ELSE UNCHANGED <<chat_ids, typing_tasks, bus_inbound, replies, sessions, saved_sessions,
                        saved_allow_from>>
    /\ UNCHANGED <<allow_from, bot_username, has_session_manager>>

\* TelegramChannel._on_start
_on_start(uid, chat) ==
    /\ UNCHANGED notTelegram
    /\ event' = Event("start", uid, chat, <<>>)
    /\ IF has_user(uid) /\ _check_command_allowed(uid, chat)
       THEN /\ Len(replies) < MaxReplies
            /\ replies' = Append(replies, [chat |-> chat, kind |-> "hi"])
       ELSE UNCHANGED replies
    /\ UNCHANGED <<allow_from, saved_allow_from, bot_username, has_session_manager,
                   chat_ids, typing_tasks, bus_inbound, sessions, saved_sessions>>

\* TelegramChannel._on_help
_on_help(uid, chat) ==
    /\ UNCHANGED notTelegram
    /\ event' = Event("help", uid, chat, <<>>)
    /\ IF _check_command_allowed(uid, chat)
       THEN /\ Len(replies) < MaxReplies
            /\ replies' = Append(replies, [chat |-> chat, kind |-> "help"])
       ELSE UNCHANGED replies
    /\ UNCHANGED <<allow_from, saved_allow_from, bot_username, has_session_manager,
                   chat_ids, typing_tasks, bus_inbound, sessions, saved_sessions>>

\* session_key = f"{self.name}:{chat_id}" of _on_reset, and one built from
\* the sender instead of the chat
reset_session_key_sender(uid, chat) == <<"telegram", str(uid)>>
reset_session_key(uid, chat) == <<"telegram", str(chat)>>

\* TelegramChannel._on_reset: session.clear() and session_manager.save(session)
_on_reset(uid, chat) ==
    /\ UNCHANGED notTelegram
    /\ event' = Event("reset", uid, chat, <<>>)
    /\ IF has_user(uid) /\ _check_command_allowed(uid, chat)
       THEN /\ Len(replies) < MaxReplies
            /\ IF ~has_session_manager
               THEN /\ replies' = Append(replies, [chat |-> chat, kind |-> "no session manager"])
                    /\ UNCHANGED <<sessions, saved_sessions>>
               ELSE /\ sessions' = [sessions EXCEPT ![reset_session_key(uid, chat)] = <<>>]
                    /\ saved_sessions' =
                           [saved_sessions EXCEPT ![reset_session_key(uid, chat)] = <<>>]
                    /\ replies' = Append(replies, [chat |-> chat, kind |-> "cleared"])
       ELSE UNCHANGED <<replies, sessions, saved_sessions>>
    /\ UNCHANGED <<allow_from, saved_allow_from, bot_username, has_session_manager,
                   chat_ids, typing_tasks, bus_inbound>>

\* TelegramChannel._on_allow
_on_allow(uid, chat) ==
    /\ UNCHANGED notTelegram
    /\ event' = Event("allow", uid, chat, <<>>)
    /\ IF ~has_user(uid)
       THEN UNCHANGED <<replies, saved_allow_from>>
       ELSE /\ Len(replies) < MaxReplies
            /\ IF is_allowed(str(uid), str(chat))
               THEN /\ replies' = Append(replies, [chat |-> chat, kind |-> "already allowed"])
                    /\ UNCHANGED saved_allow_from
               ELSE IF str(uid) \notin saved_allow_from
                    THEN /\ saved_allow_from' = saved_allow_from \cup {str(uid)}
                         /\ replies' = Append(replies, [chat |-> chat, kind |-> "added"])
                    ELSE /\ replies' = Append(replies, [chat |-> chat, kind |-> "already in allow_from"])
                         /\ UNCHANGED saved_allow_from
    /\ UNCHANGED <<allow_from, bot_username, has_session_manager,
                   chat_ids, typing_tasks, bus_inbound, sessions, saved_sessions>>

\* TelegramChannel.send: the typing indicator of the chat is stopped first
send(chat) ==
    /\ UNCHANGED notTelegram
    /\ event' = Event("send", NoId, chat, <<>>)
    /\ typing_tasks' = typing_tasks \ {str(chat)}
    /\ UNCHANGED <<allow_from, saved_allow_from, bot_username, has_session_manager,
                   chat_ids, bus_inbound, replies, sessions, saved_sessions>>

SessionKeys == {<<"telegram", str(c)>> : c \in ChatIds}

InitTelegramWith(setup) ==
    /\ allow_from = setup.allow_from
    /\ bot_username = setup.bot_username
    /\ has_session_manager = setup.session_manager
    /\ saved_allow_from = allow_from
    /\ chat_ids = [s \in {sender_id_of(u) : u \in UserIds} |-> NoId]
    /\ typing_tasks = {}
    /\ bus_inbound = <<>>
    /\ replies = <<>>
    /\ sessions = [k \in SessionKeys |->
                      IF k = <<"telegram", str(999)>> THEN NoSession
                      ELSE <<"system", "user", "assistant">>]
    /\ saved_sessions = sessions
    /\ event = Event("none", NoId, NoId, <<>>)

\* a user writes in the private chat with the bot (chat id = user id) or in the
\* group; an update without effective_user is a channel post
InitTelegram == \E setup \in TelegramSetups : InitTelegramWith(setup)

\* the connector as the other components' specifications start it
IdleTelegram ==
    InitTelegramWith([allow_from |-> {<<123>>}, bot_username |-> "nanoclaw_bot",
                      session_manager |-> TRUE])

ChatsOf(uid) == IF uid = NoId THEN {GroupChat} ELSE {uid, GroupChat}
Updaters == UserIds \cup {NoId}

NextTelegram ==
    \/ \E u \in Updaters, t \in Texts : \E c \in ChatsOf(u) : _on_message(u, c, t)
    \/ \E u \in Updaters, ok \in BOOLEAN : \E c \in ChatsOf(u) :
          _on_callback_query(u, c, <<"A">>, ok)
    \/ \E u \in Updaters : \E c \in ChatsOf(u) : _on_start(u, c)
    \/ \E u \in Updaters : \E c \in ChatsOf(u) : _on_help(u, c)
    \/ \E u \in Updaters : \E c \in ChatsOf(u) : _on_reset(u, c)
    \/ \E u \in Updaters : \E c \in ChatsOf(u) : _on_allow(u, c)
    \/ \E c \in ChatIds : send(c)


(***************************************************************************)
(* Claims about the Telegram connector.                                    *)
(***************************************************************************)
\* the update e comes from a sender that is_allowed rejects
Rejected(e) ==
    /\ has_user(e.user)
    /\ ~is_allowed(sender_id_of(e.user), str(e.chat))

\* C1: a message or button press whose (sender_id, chat_id) is_allowed rejects
\* publishes nothing to the bus, starts no typing indicator and records no
\* chat id; a message in a non-private chat is published only when the bot
\* is mentioned and is_allowed accepts it.
C1_RejectedNeverPublished ==
    [][ /\ (event'.kind \in {"message", "callback_query"} /\ Rejected(event'))
            => UNCHANGED <<bus_inbound, typing_tasks, chat_ids>>
        /\ (/\ event'.kind = "message"
            /\ ChatType(event'.chat) # "private"
            /\ bus_inbound' # bus_inbound)
            => (/\ _is_mentioned(event'.text)
                /\ is_allowed(sender_id_of(event'.user), str(event'.chat)))
      ]_tgVars

\* a rejected private message was handled while an accepted one is on the bus
C1_Witness ==
    /\ event.kind = "message"
    /\ Rejected(event)
    /\ Len(bus_inbound) > 0

\* C2: an update of any kind from a sender that is_allowed rejects sends no
\* reply and changes no state of the connector, the sessions or the
\* configuration.
C2_RejectionIsSilent ==
    [][ (/\ event'.kind \in {"message", "callback_query", "start", "reset", "help", "allow"}
         /\ Rejected(event'))
        => UNCHANGED <<bus_inbound, replies, sessions, saved_allow_from, allow_from,
                       chat_ids, typing_tasks>>
      ]_tgVars

\* InboundMessage.session_key: f"{self.channel}:{self.chat_id}"
session_key(m) == <<m.channel, m.chat_id>>

\* C21: /reset from an allowed sender in chat c empties the session
\* "telegram:" + c, the session_key of the inbound messages published from
\* that chat, saves the emptied session and leaves the other sessions as
\* they were (the connector has the session manager the gateway gives it).
C21_ResetClearsOwnSession ==
    [][ (/\ event'.kind = "reset"
         /\ has_user(event'.user)
         /\ is_allowed(sender_id_of(event'.user), str(event'.chat))
         /\ has_session_manager
         /\ replies' # replies)
        => LET key == <<"telegram", str(event'.chat)>> IN
           /\ sessions'[key] = <<>>
           /\ saved_sessions'[key] = <<>>
           /\ \A k \in SessionKeys \ {key} :
                  sessions'[k] = sessions[k] /\ saved_sessions'[k] = saved_sessions[k]
           /\ \A i \in 1..Len(bus_inbound) :
                  bus_inbound[i].chat_id = str(event'.chat)
                      <=> session_key(bus_inbound[i]) = key
      ]_tgVars

\* a group chat's session was reset after a message from that chat was
\* published; the sender's private session still has its messages
C21_Witness ==
    /\ event.kind = "reset"
    /\ ChatType(event.chat) # "private"
    /\ is_allowed(sender_id_of(event.user), str(event.chat))
    /\ sessions[<<"telegram", str(event.chat)>>] = <<>>
    /\ saved_sessions[<<"telegram", str(event.chat)>>] = <<>>
    /\ \E i \in 1..Len(bus_inbound) :
           session_key(bus_inbound[i]) = <<"telegram", str(event.chat)>>
    /\ \E k \in SessionKeys : Len(sessions[k]) = 3

(***************************************************************************)
(* Event types (bus/events.py) and the wire codec (bus/network.py).        *)
(* A datetime is [sec, usec]; its ISO-8601 string is the tuple of the      *)
(* parts isoformat() prints: the microseconds are printed only when they   *)
(* are not zero.                                                           *)
(***************************************************************************)
isoformat(ts) ==
    IF ts.usec = 0 THEN <<"iso", ts.sec>> ELSE <<"iso", ts.sec, ts.usec>>
fromisoformat_seconds(str_ts) ==
    [sec |-> str_ts[2], usec |-> 0]
fromisoformat(str_ts) ==
    [sec |-> str_ts[2], usec |-> IF Len(str_ts) = 3 THEN str_ts[3] ELSE 0]

\* InboundMessage.to_dict
InboundMessage_to_dict(m) ==
    [channel |-> m.channel, sender_id |-> m.sender_id, chat_id |-> m.chat_id,
     content |-> m.content, timestamp |-> isoformat(m.timestamp),
     media |-> m.media, metadata |-> m.metadata]

\* InboundMessage.from_dict
InboundMessage_from_dict_seconds(d) ==
    [channel |-> d.channel, sender_id |-> d.sender_id, chat_id |-> d.chat_id,
     content |-> d.content, timestamp |-> fromisoformat_seconds(d.timestamp),
     media |-> d.media, metadata |-> d.metadata]
InboundMessage_from_dict(d) ==
    [channel |-> d.channel, sender_id |-> d.sender_id, chat_id |-> d.chat_id,
     content |-> d.content, timestamp |-> fromisoformat(d.timestamp),
     media |-> d.media, metadata |-> d.metadata]

\* OutboundMessage.to_dict
OutboundMessage_to_dict(m) ==
    [channel |-> m.channel, chat_id |-> m.chat_id, content |-> m.content,
     reply_to |-> m.reply_to, media |-> m.media, metadata |-> m.metadata]

\* OutboundMessage.from_dict
OutboundMessage_from_dict(d) ==
    [channel |-> d.channel, chat_id |-> d.chat_id, content |-> d.content,
     reply_to |-> d.reply_to, media |-> d.media, metadata |-> d.metadata]

\* the messages the gateway and the agent exchange in the model
InboundMsgs ==
    {[channel |-> "telegram", sender_id |-> <<123, "alice">>, chat_id |-> <<123>>,
      content |-> "hi", timestamp |-> [sec |-> 10, usec |-> 0], media |-> <<>>,
      metadata |-> [is_group |-> FALSE]],
     [channel |-> "telegram", sender_id |-> <<999>>, chat_id |-> <<GroupChat>>,
      content |-> "photo", timestamp |-> [sec |-> 10, usec |-> 250], media |-> <<"a.jpg">>,
      metadata |-> [is_group |-> TRUE]]}
OutboundMsgs ==
    {[channel |-> "telegram", chat_id |-> <<123>>, content |-> "pong",
      reply_to |-> None, media |-> <<>>, metadata |-> <<>>],
     [channel |-> "discord", chat_id |-> <<7>>, content |-> "done",
      reply_to |-> "41", media |-> <<>>, metadata |-> <<>>]}

\* the payload _send_msg frames: {"type": ..., "data": ...}
Frame(type, data) == [type |-> type, data |-> data]

(***************************************************************************)
(* The network bus: one NetworkBusServer (agent side) and the              *)
(* NetworkBusClients (gateway side) that connect to it.                    *)
(*                                                                         *)
(* A TCP connection is seen from both ends: sconn[c] is the state of the   *)
(* server's transport for client c, cconn[c] of the client's.              *)
(*   "none"   no connection was opened                                     *)
(*   "up"     established                                                  *)
(*   "eof"    the peer closed its end: the reader returns EOF once the     *)
(*            frames in flight are read; writes are still accepted         *)
(*   "lost"   connection_lost(exc): readers and drain() raise              *)
(*   "closed" this end called writer.close()                               *)
(***************************************************************************)
Clients == {"gw1", "gw2"}
MaxPublish == 2
MaxOutbound == 2

IdlePub == [pc |-> "idle", it |-> 0, cur |-> None, dead |-> <<>>, msg |-> None,
            present |-> {}, written |-> {}, failed |-> {}, result |-> None]

InitBus ==
    /\ server_state = "init"
    /\ _clients = <<>>
    /\ _inbound = <<>>
    /\ handler = [c \in Clients |-> "none"]
    /\ sconn = [c \in Clients |-> "none"]
    /\ cconn = [c \in Clients |-> "none"]
    /\ c2s = [c \in Clients |-> <<>>]
    /\ s2c = [c \in Clients |-> <<>>]
    /\ _outbound = [c \in Clients |-> <<>>]
    /\ _recv_task = [c \in Clients |-> "none"]
    /\ pub = IdlePub
    /\ sent = [c \in Clients |-> <<>>]
    /\ consumed = <<>>
    /\ delivered = [c \in Clients |-> <<>>]
    /\ published = <<>>
    /\ inbound_calls = <<>>
    /\ gw_run = [c \in Clients |-> [state |-> "init", polled_dead |-> FALSE]]

\* asyncio runs one task at a time: while publish_outbound runs between two
\* awaits no other task of the agent process is scheduled
AgentLoopFree == pub.pc # "run"

\* list.remove(x), for x in the list
RECURSIVE ListRemove(_, _)
ListRemove(list, x) ==
    IF list = <<>> THEN <<>>
    ELSE IF Head(list) = x THEN Tail(list)
         ELSE <<Head(list)>> \o ListRemove(Tail(list), x)

InList(list, x) == \E i \in 1..Len(list) : list[i] = x

\* writer.close() on the server's end of connection c: the gateway reads EOF
\* after the frames in flight; what the gateway sent and nobody read is dropped
ServerClose(c) ==
    /\ sconn' = [sconn EXCEPT ![c] = IF @ = "lost" THEN "lost" ELSE "closed"]
    /\ cconn' = [cconn EXCEPT ![c] = IF @ = "up" THEN "eof" ELSE @]
    /\ c2s' = [c2s EXCEPT ![c] = <<>>]

\* the finally block of _handle_client
HandleClientFinally(c, queue) ==
    /\ _clients' = IF InList(_clients, c) THEN ListRemove(_clients, c) ELSE _clients
    /\ ServerClose(c)
    /\ handler' = [handler EXCEPT ![c] = "done"]
    /\ _inbound' = queue
    /\ pub' = [pub EXCEPT !.present = @ \ {c}]

\* NetworkBusServer.serve
serve ==
    /\ UNCHANGED notBus
    /\ server_state = "init"
    /\ server_state' = "serving"
    /\ UNCHANGED <<_clients, _inbound, handler, sconn, cconn, c2s, s2c, _outbound,
                   _recv_task, pub, sent, consumed, delivered, published,
                   inbound_calls, gw_run>>

\* NetworkBusServer.stop
server_stop ==
    /\ UNCHANGED notBus
    /\ AgentLoopFree
    /\ server_state = "serving"
    /\ server_state' = "stopped"
    /\ UNCHANGED <<_clients, _inbound, handler, sconn, cconn, c2s, s2c, _outbound,
                   _recv_task, pub, sent, consumed, delivered, published,
                   inbound_calls, gw_run>>

\* NetworkBusClient.connect, awaited by the gateway's run(): a refused
\* connection raises out of run()
connect(c) ==
    /\ UNCHANGED notBus
    /\ cconn[c] = "none"
    /\ gw_run[c].state = "init"
    /\ IF server_state = "serving"
       THEN /\ cconn' = [cconn EXCEPT ![c] = "up"]
            /\ sconn' = [sconn EXCEPT ![c] = "up"]
            /\ _recv_task' = [_recv_task EXCEPT ![c] = "running"]
            /\ gw_run' = [gw_run EXCEPT ![c].state = "running"]
       ELSE /\ gw_run' = [gw_run EXCEPT ![c].state = "failed"]
            /\ UNCHANGED <<cconn, sconn, _recv_task>>
    /\ UNCHANGED <<server_state, _clients, _inbound, handler, c2s, s2c, _outbound,
                   pub, sent, consumed, delivered, published, inbound_calls>>

\* _handle_client up to its first await: the writer joins _clients
handle_client_start(c) ==
    /\ UNCHANGED notBus
    /\ AgentLoopFree
    /\ handler[c] = "none"
    /\ sconn[c] # "none"
    /\ IF server_state = "serving"
       THEN /\ _clients' = Append(_clients, c)
            /\ handler' = [handler EXCEPT ![c] = "reading"]
            /\ UNCHANGED <<sconn, cconn, c2s, _inbound, pub>>
       ELSE HandleClientFinally(c, _inbound)
    /\ UNCHANGED <<server_state, s2c, _outbound, _recv_task, sent, consumed,
                   delivered, published, inbound_calls, gw_run>>

\* the frames a peer can send that are no inbound message: bytes that are
\* not JSON, a message without "data", data without a required field or
\* with a field InboundMessage does not have, and messages of another type
\* or of none
NotJsonFrame == [invalid_json |-> TRUE]
NoDataFrame == [type |-> "inbound"]
MissingFieldFrame ==
    Frame("inbound", [channel |-> "telegram", sender_id |-> <<123>>, chat_id |-> <<123>>])
UnknownFieldFrame ==
    Frame("inbound", [channel |-> "telegram", sender_id |-> <<123>>, chat_id |-> <<123>>,
                      content |-> "hi", session_key |-> "telegram:123"])
OtherTypeFrame == Frame("ping", <<>>)
NoTypeFrame == [data |-> <<>>]
RawFrames == {NotJsonFrame, NoDataFrame, MissingFieldFrame, UnknownFieldFrame,
              OtherTypeFrame, NoTypeFrame}

\* a peer writes such a frame on its connection, on which nothing is in
\* flight
raw_frame(c, frame) ==
    /\ UNCHANGED notBus
    /\ cconn[c] = "up"
    /\ c2s[c] = <<>>
    /\ c2s' = [c2s EXCEPT ![c] = Append(@, frame)]
    /\ UNCHANGED <<server_state, _clients, _inbound, handler, sconn, cconn, s2c,
                   _outbound, _recv_task, pub, sent, consumed, delivered, published,
                   inbound_calls, gw_run>>

\* cls(**d) of from_dict: the required fields are there and no field is
\* unknown, else TypeError
from_dict_accepts(d) ==
    /\ {"channel", "sender_id", "chat_id", "content"} \subseteq DOMAIN d
    /\ DOMAIN d \subseteq {"channel", "sender_id", "chat_id", "content",
                            "timestamp", "media", "metadata"}

\* what _handle_client does with the bytes of a frame: json.loads in
\* _recv_msg, msg.get("type"), msg["data"] and from_dict raise what the
\* "except" of the loop does not catch; a message of another type is skipped
handle_frame_lenient(msg) ==
    IF "invalid_json" \in DOMAIN msg THEN "skip"
    ELSE IF "type" \notin DOMAIN msg \/ msg.type # "inbound" THEN "skip"
    ELSE IF "data" \notin DOMAIN msg THEN "skip"
    ELSE IF ~from_dict_accepts(msg.data) THEN "skip"
    ELSE "put"
handle_frame(msg) ==
    IF "invalid_json" \in DOMAIN msg THEN "JSONDecodeError"
    ELSE IF "type" \notin DOMAIN msg \/ msg.type # "inbound" THEN "skip"
    ELSE IF "data" \notin DOMAIN msg THEN "KeyError"
    ELSE IF ~from_dict_accepts(msg.data) THEN "TypeError"
    ELSE "put"

\* one round of the read loop of _handle_client: _recv_msg returns a frame,
\* or fails on EOF or on a lost connection; an exception the loop does not
\* catch leaves _handle_client through its finally block
handle_client_recv(c) ==
    /\ UNCHANGED notBus
    /\ AgentLoopFree
    /\ handler[c] = "reading"
    /\ IF c2s[c] # <<>> /\ sconn[c] # "lost"
       THEN LET msg == Head(c2s[c])
                queue == IF handle_frame(msg) = "put"
                         THEN Append(_inbound,
                                 [from |-> c, msg |-> InboundMessage_from_dict(msg.data)])
                         ELSE _inbound
            IN  IF handle_frame(msg) \notin {"put", "skip"}
                THEN HandleClientFinally(c, _inbound)
                ELSE IF server_state = "serving"
                THEN /\ c2s' = [c2s EXCEPT ![c] = Tail(@)]
                     /\ _inbound' = queue
                     /\ UNCHANGED <<_clients, handler, sconn, cconn, pub>>
                ELSE HandleClientFinally(c, queue)
       ELSE /\ sconn[c] \in {"eof", "lost"}
            /\ HandleClientFinally(c, _inbound)
    /\ UNCHANGED <<server_state, s2c, _outbound, _recv_task, sent, consumed,
                   delivered, published, inbound_calls, gw_run>>

\* NetworkBusServer.consume_inbound
consume_inbound ==
    /\ UNCHANGED notBus
    /\ AgentLoopFree
    /\ _inbound # <<>>
    /\ consumed' = Append(consumed, Head(_inbound))
    /\ _inbound' = Tail(_inbound)
    /\ UNCHANGED <<server_state, _clients, handler, sconn, cconn, c2s, s2c, _outbound,
                   _recv_task, pub, sent, delivered, published, inbound_calls, gw_run>>

\* how a publish_inbound call on a connection in state st ends
publish_inbound_result(st) ==
    IF st \in {"up", "eof"} THEN "returned" ELSE "ConnectionError"

\* NetworkBusClient.publish_inbound: _writer is None before connect(); else
\* _send_msg writes the frame and drains. A transport whose peer closed
\* still accepts the write and drain() returns; the frame is never read.
publish_inbound(c, m) ==
    /\ UNCHANGED notBus
    /\ Len(inbound_calls) < MaxPublish
    /\ IF cconn[c] = "up"
       THEN /\ c2s' = [c2s EXCEPT ![c] =
                         Append(@, Frame("inbound", InboundMessage_to_dict(m)))]
            /\ sent' = [sent EXCEPT ![c] = Append(@, m)]
       ELSE UNCHANGED <<c2s, sent>>
    /\ inbound_calls' = Append(inbound_calls,
           [client |-> c, result |-> publish_inbound_result(cconn[c]),
            conn |-> cconn[c], loss_seen |-> _recv_task[c] = "ended"])
    /\ UNCHANGED <<server_state, _clients, _inbound, handler, sconn, cconn, s2c,
                   _outbound, _recv_task, pub, consumed, delivered, published, gw_run>>

\* NetworkBusClient.stop
client_stop(c) ==
    /\ UNCHANGED notBus
    /\ AgentLoopFree
    /\ cconn[c] \in {"up", "eof", "lost"}
    /\ cconn' = [cconn EXCEPT ![c] = "closed"]
    /\ sconn' = [sconn EXCEPT ![c] = IF @ = "up" THEN "eof" ELSE @]
    /\ s2c' = [s2c EXCEPT ![c] = <<>>]
    /\ _recv_task' = [_recv_task EXCEPT ![c] = IF @ = "running" THEN "cancelled" ELSE @]
    /\ gw_run' = [gw_run EXCEPT ![c].state = "stopped"]
    /\ UNCHANGED <<server_state, _clients, _inbound, handler, c2s, _outbound, pub,
                   sent, consumed, delivered, published, inbound_calls>>

\* the connection breaks (reset, broken pipe): both transports get
\* connection_lost(exc) and the frames in flight are gone
connection_reset(c) ==
    /\ UNCHANGED notBus
    /\ AgentLoopFree
    /\ sconn[c] \in {"up", "eof"} \/ cconn[c] \in {"up", "eof"}
    /\ sconn' = [sconn EXCEPT ![c] = IF @ \in {"up", "eof"} THEN "lost" ELSE @]
    /\ cconn' = [cconn EXCEPT ![c] = IF @ \in {"up", "eof"} THEN "lost" ELSE @]
    /\ c2s' = [c2s EXCEPT ![c] = <<>>]
    /\ s2c' = [s2c EXCEPT ![c] = <<>>]
    /\ UNCHANGED <<server_state, _clients, _inbound, handler, _outbound, _recv_task,
                   pub, sent, consumed, delivered, published, inbound_calls, gw_run>>

\* one round of NetworkBusClient._receive_loop: a frame is decoded and
\* queued, or the read fails and the loop logs a warning and breaks
_receive_loop(c) ==
    /\ UNCHANGED notBus
    /\ _recv_task[c] = "running"
    /\ IF s2c[c] # <<>>
       THEN /\ _outbound' = [_outbound EXCEPT ![c] =
                   IF Head(s2c[c]).type = "outbound"
                   THEN Append(@, OutboundMessage_from_dict(Head(s2c[c]).data))
                   ELSE @]
            /\ s2c' = [s2c EXCEPT ![c] = Tail(@)]
            /\ UNCHANGED _recv_task
       ELSE /\ cconn[c] \in {"eof", "lost"}
            /\ _recv_task' = [_recv_task EXCEPT ![c] = "ended"]
            /\ UNCHANGED <<_outbound, s2c>>
    /\ UNCHANGED <<server_state, _clients, _inbound, handler, sconn, cconn, c2s,
                   pub, sent, consumed, delivered, published, inbound_calls, gw_run>>

\* the loop "for w in dead: self._clients.remove(w)": list.remove raises
\* ValueError for a writer that is no longer in the list
RECURSIVE RemoveDead(_, _)
RemoveDead(list, dead) ==
    IF dead = <<>> THEN [clients |-> list, raised |-> FALSE]
    ELSE IF InList(list, Head(dead))
         THEN RemoveDead(ListRemove(list, Head(dead)), Tail(dead))
         ELSE [clients |-> list, raised |-> TRUE]

\* the writers a publish_outbound call starts from
ClientSet == {_clients[i] : i \in 1..Len(_clients)}

\* NetworkBusServer.publish_outbound is called: the payload is built and the
\* iteration over self._clients begins
publish_outbound_call(m) ==
    /\ UNCHANGED notBus
    /\ pub.pc \in {"idle", "done"}
    /\ Len(published) < MaxOutbound
    /\ published' = Append(published, m)
    /\ pub' = [pc |-> "run", it |-> 0, cur |-> None, dead |-> <<>>, msg |-> m,
               present |-> ClientSet, written |-> {}, failed |-> {}, result |-> None]
    /\ UNCHANGED <<server_state, _clients, _inbound, handler, sconn, cconn, c2s, s2c,
                   _outbound, _recv_task, sent, consumed, delivered, inbound_calls, gw_run>>

\* the index of the client the list iterator yields next: the iterator keeps
\* a position in the list, whatever was removed from the list meanwhile
next_client(call) == call.it + 1

\* publish_outbound runs to its next await: the list iterator yields the next
\* writer and _send_msg writes the frame and drains, which returns, suspends
\* (flow control) or raises on a lost connection; when the iterator is
\* exhausted the dead writers are removed and the call ends
publish_outbound_step ==
    /\ UNCHANGED notBus
    /\ pub.pc = "run"
    /\ IF pub.it < Len(_clients)
       THEN LET w == _clients[next_client(pub)] IN
            /\ s2c' = [s2c EXCEPT ![w] =
                         IF sconn[w] = "up"
                         THEN Append(@, Frame("outbound", OutboundMessage_to_dict(pub.msg)))
                         ELSE @]
            /\ IF sconn[w] \in {"up", "eof"}
               THEN \E suspends \in BOOLEAN :
                        pub' = [pub EXCEPT !.it = @ + 1,
                                           !.written = @ \cup {w},
                                           !.cur = IF suspends THEN w ELSE None,
                                           !.pc = IF suspends THEN "drain" ELSE "run"]
               ELSE pub' = [pub EXCEPT !.it = @ + 1,
                                       !.written = @ \cup {w},
                                       !.dead = Append(@, w),
                                       !.failed = @ \cup {w}]
            /\ UNCHANGED _clients
       ELSE /\ _clients' = RemoveDead(_clients, pub.dead).clients
            /\ pub' = [pub EXCEPT !.pc = "done",
                                  !.result = IF RemoveDead(_clients, pub.dead).raised
                                             THEN "ValueError" ELSE "returned"]
            /\ UNCHANGED s2c
    /\ UNCHANGED <<server_state, _inbound, handler, sconn, cconn, c2s, _outbound,
                   _recv_task, sent, consumed, delivered, published, inbound_calls, gw_run>>

\* the suspended drain() of publish_outbound resumes: it raises when the
\* connection was lost meanwhile, else it returns
publish_outbound_resume ==
    /\ UNCHANGED notBus
    /\ pub.pc = "drain"
    /\ pub' = IF sconn[pub.cur] = "lost"
              THEN [pub EXCEPT !.pc = "run", !.cur = None,
                               !.dead = Append(@, pub.cur),
                               !.failed = @ \cup {pub.cur}]
              ELSE [pub EXCEPT !.pc = "run", !.cur = None]
    /\ UNCHANGED <<server_state, _clients, _inbound, handler, sconn, cconn, c2s, s2c,
                   _outbound, _recv_task, sent, consumed, delivered, published,
                   inbound_calls, gw_run>>

\* NetworkBusServer.outbound_size: the server keeps no outbound queue
outbound_size_unread == Len(published)
outbound_size == 0

\* NetworkBusClient.consume_outbound returns to the gateway's dispatcher
consume_outbound(c) ==
    /\ UNCHANGED notBus
    /\ gw_run[c].state = "running"
    /\ _outbound[c] # <<>>
    /\ delivered' = [delivered EXCEPT ![c] = Append(@, Head(_outbound[c]))]
    /\ _outbound' = [_outbound EXCEPT ![c] = Tail(@)]
    /\ UNCHANGED <<server_state, _clients, _inbound, handler, sconn, cconn, c2s, s2c,
                   _recv_task, pub, sent, consumed, published, inbound_calls, gw_run>>

\* the dispatcher's wait_for(consume_outbound(), 1.0) times out on an empty
\* queue and the dispatcher polls again; run() goes on as before
dispatcher_timeout(c) ==
    /\ UNCHANGED notBus
    /\ gw_run[c].state = "running"
    /\ _outbound[c] = <<>>
    /\ gw_run' = [gw_run EXCEPT ![c].polled_dead = @ \/ _recv_task[c] = "ended"]
    /\ UNCHANGED <<server_state, _clients, _inbound, handler, sconn, cconn, c2s, s2c,
                   _outbound, _recv_task, pub, sent, consumed, delivered, published,
                   inbound_calls>>

NextBusIn ==
    \/ serve
    \/ server_stop
    \/ \E c \in Clients : connect(c)
    \/ \E c \in Clients : handle_client_start(c)
    \/ \E c \in Clients : handle_client_recv(c)
    \/ consume_inbound
    \/ \E c \in Clients, m \in InboundMsgs : publish_inbound(c, m)
    \/ \E c \in Clients : connection_reset(c)
    \/ \E c \in Clients : _receive_loop(c)

\* the server and peers that also send frames that are no inbound message
NextBusRaw ==
    \/ serve
    \/ \E c \in Clients : connect(c)
    \/ \E c \in Clients : handle_client_start(c)
    \/ \E c \in Clients : handle_client_recv(c)
    \/ \E c \in Clients, m \in InboundMsgs : publish_inbound(c, m)
    \/ \E c \in Clients, frame \in RawFrames : raw_frame(c, frame)

NextBusOut ==
    \/ serve
    \/ \E c \in Clients : connect(c)
    \/ \E c \in Clients : handle_client_start(c)
    \/ \E c \in Clients : handle_client_recv(c)
    \/ \E m \in OutboundMsgs : publish_outbound_call(m)
    \/ publish_outbound_step
    \/ publish_outbound_resume
    \/ \E c \in Clients : _receive_loop(c)
    \/ \E c \in Clients : consume_outbound(c)
    \/ \E c \in Clients : dispatcher_timeout(c)
    \/ \E c \in Clients : client_stop(c)
    \/ \E c \in Clients : connection_reset(c)

(***************************************************************************)
(* Claims about the network bus.                                           *)
(***************************************************************************)
IsPrefix(a, b) == Len(a) <= Len(b) /\ SubSeq(b, 1, Len(a)) = a

RECURSIVE IsSubsequence(_, _)
IsSubsequence(a, b) ==
    IF a = <<>> THEN TRUE
    ELSE IF b = <<>> THEN FALSE
    ELSE IF Head(a) = Head(b) THEN IsSubsequence(Tail(a), Tail(b))
    ELSE IsSubsequence(a, Tail(b))

RECURSIVE From(_, _)
\* the messages of a tagged queue or log that came by connection c, in order
From(c, log) ==
    IF log = <<>> THEN <<>>
    ELSE IF Head(log).from = c THEN <<Head(log).msg>> \o From(c, Tail(log))
    ELSE From(c, Tail(log))

\* what a frame decoder makes of the frames still in flight from c
InFlight(c) == [i \in 1..Len(c2s[c]) |-> InboundMessage_from_dict(c2s[c][i].data)]

ConnectionUp(c) == cconn[c] = "up" /\ sconn[c] = "up" /\ server_state = "serving"

C3_InOrderExactlyOnce ==
    \A c \in Clients :
        /\ IsPrefix(From(c, consumed) \o From(c, _inbound), sent[c])
        /\ ConnectionUp(c) =>
               From(c, consumed) \o From(c, _inbound) \o InFlight(c) = sent[c]

\* C3: every InboundMessage published by a connected client is returned by
\* the server's consume_inbound, equal to the one published, exactly once and
\* in the client's publishing order; it is returned eventually as long as the
\* connection stays up and the server keeps serving.
C3_InboundDelivered ==
    /\ []C3_InOrderExactlyOnce
    /\ \A c \in Clients : \A k \in 1..MaxPublish :
           (Len(sent[c]) >= k) ~> (Len(From(c, consumed)) >= k \/ ~ConnectionUp(c))

\* two different messages of one client were consumed while its connection is up
C3_Witness ==
    \E c \in Clients :
        /\ ConnectionUp(c)
        /\ Len(From(c, consumed)) = 2
        /\ From(c, consumed) = sent[c]
        /\ sent[c][1] # sent[c][2]

\* C4: a publish_outbound call writes the message to every client that is in
\* the client set for the whole call, whatever connects, disconnects or fails
\* while the call is suspended on a write; each client's consume_outbound
\* yields the messages in publishing order.
C4_EveryPresentClientWritten ==
    /\ pub.pc = "done" => pub.present \subseteq pub.written
    /\ \A c \in Clients : IsSubsequence(delivered[c], published)

\* C5: a client whose write fails during publish_outbound is removed from the
\* client set and its stream is closed, and the same publish still reaches
\* the remaining clients.
C5_FailedClientEvicted ==
    (pub.pc = "done" /\ pub.failed # {}) =>
        /\ \A w \in pub.failed : ~InList(_clients, w) /\ sconn[w] \in {"lost", "closed"}
        /\ (pub.present \ pub.failed) \subseteq pub.written

\* C6: when a client disconnects, also during a publish_outbound call, that
\* call and every later one return without raising, and once the disconnect
\* was handled the client is no longer in the client set.
C6_PublishNeverRaises ==
    /\ pub.result # "ValueError"
    /\ \A c \in Clients : handler[c] = "done" => ~InList(_clients, c)

\* C7: once the connection is lost the next publish_inbound call fails with an
\* error, as does a publish_inbound before connect(); the client never
\* re-opens the connection.
C7_PublishAfterLossFails ==
    /\ [](\A i \in 1..Len(inbound_calls) :
           inbound_calls[i].conn \in {"none", "eof", "lost"}
               => inbound_calls[i].result = "ConnectionError")
    /\ [][\A c \in Clients : cconn[c] \in {"eof", "lost", "closed"} => cconn'[c] # "up"]_vars

\* C8: after the receive loop ended on a transport error the gateway's run
\* task fails or is notified; the gateway does not go on polling a
\* consume_outbound that can return nothing any more.
C8_TransportErrorPropagates ==
    \A c \in Clients : ~gw_run[c].polled_dead


\* C36: the server buffers no outbound messages: a message published while
\* no client is connected is discarded and never delivered to a client that
\* connects later (a frame reaches a client's stream only in the course of
\* the publish_outbound call for its message, and only for a client that is
\* in the client set then), and outbound_size is 0 in every state.
C36_NoOutboundBuffer ==
    /\ [](outbound_size = 0)
    /\ [](\A c \in Clients :
             Len(delivered[c]) + Len(_outbound[c]) + Len(s2c[c]) <= Len(published))
    /\ [][\A c \in Clients :
             Len(s2c'[c]) > Len(s2c[c]) =>
                 /\ pub.pc = "run"
                 /\ InList(_clients, c)
                 /\ s2c'[c] = Append(s2c[c], Frame("outbound", OutboundMessage_to_dict(pub.msg)))]_vars
    /\ [][(pub.pc = "run" /\ pub.it = 0 /\ _clients = <<>> /\ pub' # pub)
             => (pub'.pc = "done" /\ pub'.written = {} /\ s2c' = s2c)]_vars

\* a message was published to an empty client set; a client that joined the
\* set afterwards has received nothing, while a later message reached it
C36_Witness ==
    \E c \in Clients :
        /\ Len(published) = 2
        /\ published[1] # published[2]
        /\ pub.pc = "done"
        /\ pub.present = {c}
        /\ delivered[c] = <<published[2]>>
        /\ _outbound[c] = <<>> /\ s2c[c] = <<>>
        /\ \A d \in Clients \ {c} : sconn[d] = "none"

\* the handler of connection c reads a frame in this step
ReadStep(c) ==
    /\ handler[c] = "reading"
    /\ c2s[c] # <<>>
    /\ Len(c2s'[c]) < Len(c2s[c]) \/ handler'[c] = "done"

\* C35: a received inbound frame that cannot be turned into a message (not
\* valid JSON, no "data" key, unknown or missing message fields) affects only
\* its own connection: nothing is enqueued for it, its client is removed from
\* the client set and closed, and the other connections, the listener and
\* the queued messages stay as they are; a frame whose type is not "inbound"
\* is skipped and the connection stays open.
C35_BadFrameIsolated ==
    [][\A c \in Clients : ReadStep(c) =>
          LET frame == Head(c2s[c]) IN
          /\ frame \in {NotJsonFrame, NoDataFrame, MissingFieldFrame, UnknownFieldFrame}
                => /\ _inbound' = _inbound
                   /\ handler'[c] = "done"
                   /\ ~InList(_clients', c)
                   /\ sconn'[c] = "closed"
                   /\ server_state' = server_state
                   /\ \A d \in Clients \ {c} :
                          /\ handler'[d] = handler[d]
                          /\ sconn'[d] = sconn[d] /\ cconn'[d] = cconn[d]
                          /\ c2s'[d] = c2s[d]
                          /\ InList(_clients', d) <=> InList(_clients, d)
          /\ frame \in {OtherTypeFrame, NoTypeFrame}
                => /\ _inbound' = _inbound
                   /\ handler'[c] = "reading"
                   /\ InList(_clients', c)
                   /\ sconn'[c] = sconn[c]
                   /\ c2s'[c] = Tail(c2s[c])]_vars

\* a frame that is no message ended one connection, while the other one is
\* open with a frame to read and a message of each connection is queued
C35_Witness ==
    \E c, d \in Clients :
        /\ handler[c] = "done" /\ sconn[c] = "closed" /\ ~InList(_clients, c)
        /\ handler[d] = "reading" /\ InList(_clients, d) /\ c2s[d] # <<>>
        /\ From(c, _inbound) # <<>>
        /\ From(d, _inbound) # <<>>
        /\ server_state = "serving"

\* after stop() no client gets a connection
C32_ListenerClosed ==
    [][server_state = "stopped" =>
          \A c \in Clients : cconn[c] = "none" => cconn'[c] # "up"]_vars

\* after stop() nothing is put on the inbound queue
C32_NothingEnqueued ==
    [][server_state = "stopped" => IsPrefix(_inbound', _inbound)]_vars

\* a read loop whose pending read meets EOF or a reset after stop() ends,
\* and its writer is out of the client set and closed
C32_ReadLoopsEnd ==
    \A c \in Clients :
        (server_state = "stopped" /\ handler[c] = "reading"
             /\ sconn[c] \in {"eof", "lost"})
          ~> (handler[c] = "done" /\ ~InList(_clients, c)
                 /\ sconn[c] \in {"closed", "lost"})

\* C32: after NetworkBusServer.stop() the listener accepts no new client
\* connection, no inbound message received after stop() is put on the
\* inbound queue, and each existing connection's read loop ends once its
\* pending read observes EOF or a reset, removing its writer from the client
\* set and closing it.
C32_StopQuiescesServer ==
    /\ C32_ListenerClosed
    /\ C32_NothingEnqueued
    /\ C32_ReadLoopsEnd

(***************************************************************************)
(* The Channel Manager: start supervision and the outbound dispatcher.     *)
(***************************************************************************)
ChannelNames == {"telegram", "discord", "email"}
\* the sets of connectors _init_channels registers, by configuration
ChannelConfigs == {{}, {"telegram"}, {"telegram", "discord"}}
MaxDispatch == 3
max_retries == 5

DispatchMsgs ==
    OutboundMsgs \cup
    {[channel |-> "email", chat_id |-> <<31>>, content |-> "mail",
      reply_to |-> None, media |-> <<>>, metadata |-> <<>>]}

NoTask == [pc |-> "none", attempt |-> 0, calls |-> 0, sleeps |-> <<>>, delay |-> 0]
\* getter is the future Queue.get() waits on while the queue is empty
NoDispatcher == [pc |-> "none", msg |-> None, consumed |-> <<>>, last |-> None,
                 getter |-> "none"]
NoStop == [pc |-> "none", cancelled_in |-> None, dispatch_task |-> None,
           stopped |-> <<>>, raised |-> {}]

\* ChannelManager.__init__ for a configuration that enables these connectors
InitManagerWith(enabled) ==
    /\ channels = enabled
    /\ outbound_queue = <<>>
    /\ queued = <<>>
    /\ dispatcher = NoDispatcher
    /\ send_calls = <<>>
    /\ start_task = [name \in ChannelNames |-> NoTask]
    /\ stop_task = NoStop

InitManager == \E enabled \in ChannelConfigs : InitManagerWith(enabled)
IdleManager == InitManagerWith({"telegram"})

\* self.channels.get(name): the connector registered under the name, or None
channels_get_any(name) ==
    IF name \in channels THEN name
    ELSE IF channels = {} THEN None ELSE CHOOSE n \in channels : TRUE
channels_get(name) == IF name \in channels THEN name ELSE None

\* enabled_channels and get_status: the names in self.channels
enabled_channels == channels
get_status == [name \in channels |-> [enabled |-> TRUE]]

Min(a, b) == IF a < b THEN a ELSE b

\* "if attempt == max_retries": the failed attempt was the last one
last_attempt_off(attempt) == FALSE
last_attempt(attempt) == attempt = max_retries

\* ChannelManager.start_all: without connectors it returns; else it creates
\* the dispatcher task and one _start_channel task per connector
start_all ==
    /\ UNCHANGED notManager
    /\ dispatcher.pc = "none"
    /\ IF channels = {}
       THEN /\ dispatcher' = [dispatcher EXCEPT !.pc = "not_started"]
            /\ UNCHANGED start_task
       ELSE /\ dispatcher' = [dispatcher EXCEPT !.pc = "waiting"]
            /\ start_task' = [name \in ChannelNames |->
                                 IF name \in channels
                                 THEN [NoTask EXCEPT !.pc = "loop", !.delay = 2]
                                 ELSE NoTask]
    /\ UNCHANGED <<channels, outbound_queue, queued, send_calls, stop_task>>

\* _start_channel: the for loop yields the next attempt and channel.start()
\* is called; an exhausted range ends the coroutine
_start_channel(name) ==
    /\ UNCHANGED notManager
    /\ start_task[name].pc = "loop"
    /\ start_task' = [start_task EXCEPT ![name] =
           IF @.attempt < max_retries
           THEN [@ EXCEPT !.pc = "in_start", !.attempt = @ + 1, !.calls = @ + 1]
           ELSE [@ EXCEPT !.pc = "exhausted"]]
    /\ UNCHANGED <<channels, outbound_queue, queued, dispatcher, send_calls,
                   stop_task>>

\* channel.start() returns normally: _start_channel returns
start_returns(name) ==
    /\ UNCHANGED notManager
    /\ start_task[name].pc = "in_start"
    /\ start_task' = [start_task EXCEPT ![name].pc = "started"]
    /\ UNCHANGED <<channels, outbound_queue, queued, dispatcher, send_calls,
                   stop_task>>

\* channel.start() raises an Exception: after the last attempt the error is
\* logged and _start_channel returns, else it sleeps for delay seconds
start_raises(name) ==
    /\ UNCHANGED notManager
    /\ start_task[name].pc = "in_start"
    /\ start_task' = [start_task EXCEPT ![name] =
           IF last_attempt(@.attempt)
           THEN [@ EXCEPT !.pc = "gave_up"]
           ELSE [@ EXCEPT !.pc = "sleeping", !.sleeps = Append(@, start_task[name].delay)]]
    /\ UNCHANGED <<channels, outbound_queue, queued, dispatcher, send_calls,
                   stop_task>>

\* asyncio.sleep(delay) is over: delay = min(delay * 2, 60), next iteration
sleep_done(name) ==
    /\ UNCHANGED notManager
    /\ start_task[name].pc = "sleeping"
    /\ start_task' = [start_task EXCEPT ![name] =
           [@ EXCEPT !.pc = "loop", !.delay = Min(@ * 2, 60)]]
    /\ UNCHANGED <<channels, outbound_queue, queued, dispatcher, send_calls,
                   stop_task>>

\* NetworkBusClient._receive_loop puts a decoded message on the outbound
\* queue, which wakes the getter of a waiting consume_outbound
outbound_put(m) ==
    /\ UNCHANGED notManager
    /\ Len(queued) < MaxDispatch
    /\ outbound_queue' = Append(outbound_queue, m)
    /\ queued' = Append(queued, m)
    /\ dispatcher' = [dispatcher EXCEPT !.getter = IF @ = "pending" THEN "done" ELSE @]
    /\ UNCHANGED <<channels, send_calls, start_task, stop_task>>

\* _dispatch_outbound polls an empty queue: consume_outbound suspends in
\* self._outbound.get() until a put wakes it or the timeout cancels it
consume_outbound_waits ==
    /\ UNCHANGED notManager
    /\ dispatcher.pc = "waiting"
    /\ dispatcher.getter = "none"
    /\ outbound_queue = <<>>
    /\ dispatcher' = [dispatcher EXCEPT !.getter = "pending"]
    /\ UNCHANGED <<channels, outbound_queue, queued, send_calls, start_task, stop_task>>

\* what the "await self._outbound.get()" of a consume_outbound that is
\* cancelled leaves on the queue: the items are taken by get_nowait() after
\* the wait, which a cancelled get() does not reach
cancelled_get_takes(queue) == IF queue = <<>> THEN queue ELSE Tail(queue)
cancelled_get(queue) == queue

\* _dispatch_outbound: consume_outbound returns a message within the
\* timeout; the connector is looked up by msg.channel and send is called,
\* or the message is logged as "Unknown channel" and dropped
_dispatch_outbound ==
    /\ UNCHANGED notManager
    /\ dispatcher.pc = "waiting"
    /\ dispatcher.getter \in {"none", "done"}
    /\ outbound_queue # <<>>
    /\ LET msg == Head(outbound_queue)
           channel == channels_get(msg.channel)
       IN  /\ outbound_queue' = Tail(outbound_queue)
           /\ IF channel # None
              THEN /\ send_calls' = Append(send_calls, [connector |-> channel, msg |-> msg])
                   /\ dispatcher' = [dispatcher EXCEPT !.pc = "sending", !.msg = msg,
                                                       !.consumed = Append(@, msg),
                                                       !.getter = "none"]
              ELSE /\ dispatcher' = [dispatcher EXCEPT !.consumed = Append(@, msg),
                                                       !.last = "unknown_channel",
                                                       !.getter = "none"]
                   /\ UNCHANGED send_calls
    /\ UNCHANGED <<channels, queued, start_task, stop_task>>

\* wait_for(consume_outbound(), 1.0) times out: the suspended
\* consume_outbound is cancelled, also when a put has just woken its getter,
\* and the TimeoutError makes the loop continue
dispatch_timeout ==
    /\ UNCHANGED notManager
    /\ dispatcher.pc = "waiting"
    /\ dispatcher.getter \in {"pending", "done"}
    /\ outbound_queue' = cancelled_get(outbound_queue)
    /\ dispatcher' = [dispatcher EXCEPT
                         !.last = IF dispatcher.getter = "done"
                                  THEN "timeout_after_put" ELSE "timeout",
                         !.getter = "none"]
    /\ UNCHANGED <<channels, queued, send_calls, start_task, stop_task>>

\* how the dispatcher goes on after channel.send raised an Exception
after_send_raised == "waiting"

\* channel.send returns, or raises an Exception that is logged
send_done(raised) ==
    /\ UNCHANGED notManager
    /\ dispatcher.pc = "sending"
    /\ dispatcher' = [dispatcher EXCEPT
                         !.pc = IF raised THEN after_send_raised ELSE "waiting",
                         !.msg = None,
                         !.last = IF raised THEN "send_error" ELSE "sent"]
    /\ UNCHANGED <<channels, outbound_queue, queued, send_calls, start_task, stop_task>>

\* ChannelManager.stop_all up to "await self._dispatch_task": the dispatcher
\* task is cancelled, so that the next step of that task is a CancelledError
\* raised at the await it is suspended in: the poll or channel.send
stop_all ==
    /\ UNCHANGED notManager
    /\ stop_task.pc = "none"
    /\ dispatcher.pc \in {"waiting", "sending"}
    /\ dispatcher' = [dispatcher EXCEPT !.pc = "cancelled", !.msg = None]
    /\ stop_task' = [stop_task EXCEPT !.pc = "awaiting",
                                      !.cancelled_in = dispatcher.pc,
                                      !.dispatch_task = "cancelling"]
    /\ UNCHANGED <<channels, outbound_queue, queued, send_calls, start_task>>

\* what _dispatch_outbound does with the CancelledError: "except Exception"
\* around channel.send does not catch it, "except asyncio.CancelledError"
\* of the loop does
on_cancelled_continue == "continue"
on_cancelled == "break"

\* the dispatcher task runs again after the cancel: the CancelledError ends
\* the loop and the task is done
dispatch_cancelled ==
    /\ UNCHANGED notManager
    /\ dispatcher.pc = "cancelled"
    /\ stop_task.dispatch_task = "cancelling"
    /\ IF on_cancelled = "break"
       THEN /\ stop_task' = [stop_task EXCEPT !.dispatch_task = "done"]
            /\ dispatcher' = [dispatcher EXCEPT !.getter = "none"]
       ELSE /\ stop_task' = [stop_task EXCEPT !.dispatch_task = "running"]
            /\ dispatcher' = [dispatcher EXCEPT !.pc = "waiting", !.getter = "none"]
    /\ outbound_queue' = cancelled_get(outbound_queue)
    /\ UNCHANGED <<channels, queued, send_calls, start_task>>

\* the order of _init_channels' registry, which is the order of the
\* self.channels dict
channel_registry == <<"telegram", "discord", "email">>
channels_items == SelectSeq(channel_registry, LAMBDA name : name \in channels)

\* stop_all goes on once the dispatcher task is done: "for name, channel in
\* self.channels.items()" yields the next connector and channel.stop() is
\* awaited; it returns, or raises an Exception that is logged
channel_stop(raised) ==
    /\ UNCHANGED notManager
    /\ stop_task.pc \in {"awaiting", "stopping"}
    /\ stop_task.dispatch_task = "done"
    /\ Len(stop_task.stopped) < Len(channels_items)
    /\ LET name == channels_items[Len(stop_task.stopped) + 1] IN
       stop_task' = [stop_task EXCEPT
           !.pc = IF Len(stop_task.stopped) + 1 = Len(channels_items)
                  THEN "done" ELSE "stopping",
           !.stopped = Append(@, name),
           !.raised = IF raised THEN @ \cup {name} ELSE @]
    /\ UNCHANGED <<channels, outbound_queue, queued, dispatcher, send_calls, start_task>>

\* asyncio.gather(*tasks) of start_all is done: every _start_channel task
\* has returned
gather_done_first ==
    \E name \in channels : start_task[name].pc \in {"started", "gave_up"}
gather_done ==
    \A name \in channels : start_task[name].pc \in {"started", "gave_up"}

\* start_all returns and with it run() of the gateway, when it runs no agent
\* of its own: asyncio.run closes the loop and cancels the dispatcher task
run_returns ==
    /\ UNCHANGED notManager
    /\ dispatcher.pc \in {"waiting", "sending"}
    /\ gather_done
    /\ dispatcher' = [dispatcher EXCEPT !.pc = "cancelled", !.msg = None,
                                        !.last = "loop_closed"]
    /\ UNCHANGED <<channels, outbound_queue, queued, send_calls, start_task, stop_task>>

NextManager ==
    \/ start_all
    \/ run_returns
    \/ \E name \in ChannelNames : _start_channel(name)
    \/ \E name \in ChannelNames : start_returns(name)
    \/ \E name \in ChannelNames : start_raises(name)
    \/ \E name \in ChannelNames : sleep_done(name)
    \/ \E m \in DispatchMsgs : outbound_put(m)
    \/ consume_outbound_waits
    \/ _dispatch_outbound
    \/ dispatch_timeout
    \/ \E raised \in BOOLEAN : send_done(raised)
    \/ stop_all

\* the dispatcher and the shutdown of the manager
NextShutdown ==
    \/ start_all
    \/ \E m \in DispatchMsgs : outbound_put(m)
    \/ consume_outbound_waits
    \/ _dispatch_outbound
    \/ dispatch_timeout
    \/ \E raised \in BOOLEAN : send_done(raised)
    \/ stop_all
    \/ dispatch_cancelled
    \/ \E raised \in BOOLEAN : channel_stop(raised)

(***************************************************************************)
(* Claims about the Channel Manager.                                       *)
(***************************************************************************)
RECURSIVE ExpectedSends(_)
\* one send per consumed message whose channel has a registered connector,
\* on that connector
ExpectedSends(msgs) ==
    IF msgs = <<>> THEN <<>>
    ELSE IF Head(msgs).channel \in channels
         THEN <<[connector |-> Head(msgs).channel, msg |-> Head(msgs)]>>
                  \o ExpectedSends(Tail(msgs))
         ELSE ExpectedSends(Tail(msgs))

C9_SendsMatchConsumed ==
    /\ send_calls = ExpectedSends(dispatcher.consumed)
    /\ dispatcher.consumed \o outbound_queue = queued
    /\ dispatcher.pc # "crashed"
    /\ dispatcher.last = "send_error" => dispatcher.pc \in {"waiting", "sending", "cancelled"}

\* C9: for each message the dispatcher consumes it calls send exactly once on
\* the connector registered under msg.channel and on no other, or on none
\* when no connector is registered under it; a send that raises is not
\* retried and does not stop the dispatcher, which goes back to consuming;
\* each message is consumed exactly once.
C9_DispatchExactlyOnce ==
    /\ []C9_SendsMatchConsumed
    /\ [][(dispatcher.pc = "sending" /\ dispatcher'.pc # "sending")
             => \/ dispatcher'.pc = "waiting" /\ send_calls' = send_calls
                                              /\ outbound_queue' = outbound_queue
                \/ dispatcher'.pc = "cancelled"]_vars

\* a send raised, and the dispatcher then consumed the next message and
\* called send for it; a message without connector was dropped before
C9_Witness ==
    /\ Len(dispatcher.consumed) = 3
    /\ dispatcher.consumed[1].channel \notin channels
    /\ dispatcher.consumed[2].channel \in channels
    /\ dispatcher.consumed[3].channel \in channels
    /\ dispatcher.consumed[3].channel # dispatcher.consumed[2].channel
    /\ dispatcher.last = "send_error"
    /\ dispatcher.pc = "sending"
    /\ Len(send_calls) = 2

C10_AttemptsBounded ==
    \A name \in ChannelNames :
        LET t == start_task[name] IN
        /\ t.calls <= 5
        /\ t.pc \in {"gave_up", "exhausted"} => t.calls = 5 /\ Len(t.sleeps) = 4
        /\ t.pc # "exhausted"
        /\ Len(t.sleeps) < 5

\* C10: when every attempt raises, _start_channel calls channel.start()
\* exactly 5 times and returns; after the first start() that returns normally
\* it makes no further attempt; it does not sleep after the final failure.
C10_FiveAttempts ==
    /\ []C10_AttemptsBounded
    /\ [][\A name \in ChannelNames :
              start_task[name].pc \in {"started", "gave_up"}
                  => start_task'[name] = start_task[name]]_vars

\* one connector gave up after failing every time, another one started at
\* its third attempt
C10_Witness ==
    \E a, b \in ChannelNames :
        /\ start_task[a].pc = "gave_up"
        /\ start_task[a].sleeps = <<2, 4, 8, 16>>
        /\ start_task[b].pc = "started"
        /\ start_task[b].calls = 3

C11_InactiveAfterGiveUp ==
    \A name \in ChannelNames :
        start_task[name].pc = "gave_up" =>
            /\ name \notin enabled_channels
            /\ name \notin DOMAIN get_status
            /\ channels_get(name) = None

C12_StartsIndependent ==
    /\ dispatcher.pc \notin {"none", "not_started"} =>
           \A name \in channels : start_task[name].pc # "none"
    /\ \A name \in channels :
           start_task[name].pc = "loop" => ENABLED _start_channel(name)
    /\ (dispatcher.pc = "waiting" /\ outbound_queue # <<>>) => ENABLED _dispatch_outbound

\* C12: start_all starts every enabled connector concurrently; a connector's
\* failures, sleeps or give-up change neither another connector's start task
\* nor the dispatcher, which is not stopped while a connector is running and
\* keeps dispatching to the running connectors.
C12_FailuresIsolated ==
    /\ []C12_StartsIndependent
    /\ [][\A a \in ChannelNames :
              (start_task[a].pc # "none" /\ start_task'[a] # start_task[a])
                  => /\ \A b \in ChannelNames \ {a} : start_task'[b] = start_task[b]
                     /\ dispatcher' = dispatcher]_vars
    /\ [][(dispatcher'.last = "loop_closed" /\ dispatcher.last # "loop_closed")
              => \A name \in channels : start_task[name].pc # "in_start"]_vars

\* one connector gave up while the other one is running, and the dispatcher
\* is sending a message to the running one
C12_Witness ==
    \E a, b \in channels :
        /\ start_task[a].pc = "gave_up"
        /\ start_task[b].pc = "in_start"
        /\ dispatcher.pc = "sending"
        /\ dispatcher.msg.channel = b
        /\ Len(dispatcher.consumed) = 1

C33_NothingLost ==
    /\ dispatcher.consumed \o outbound_queue = queued
    /\ Len(send_calls) + Cardinality({i \in 1..Len(dispatcher.consumed) :
                                        dispatcher.consumed[i].channel \notin channels})
           = Len(dispatcher.consumed)

\* C33: the 1-second poll timeout never loses a message: every message put
\* on the outbound queue while the dispatcher runs is eventually passed to a
\* connector's send or dropped as unknown channel, also when it arrives at
\* the moment a poll times out and the pending consume_outbound is cancelled.
C33_TimeoutLosesNothing ==
    /\ []C33_NothingLost
    /\ \A k \in 1..MaxDispatch :
           (dispatcher.pc \in {"waiting", "sending"} /\ Len(queued) >= k)
               ~> (Len(dispatcher.consumed) >= k \/ dispatcher.pc = "cancelled")

\* a put woke the waiting consume_outbound, the poll timed out before it ran
\* and cancelled it, and the next poll passed the message to send
C33_Witness ==
    /\ dispatcher.last = "timeout_after_put"
    /\ dispatcher.pc = "sending"
    /\ dispatcher.consumed = queued
    /\ Len(send_calls) = 1

\* stop_all is past the cancel
StopAllCalled == stop_task.pc # "none"

C31_StopOrder ==
    /\ stop_task.stopped # <<>> => stop_task.dispatch_task = "done"
    /\ stop_task.pc = "done" => stop_task.stopped = channels_items
    /\ StopAllCalled => stop_task.dispatch_task \in {"cancelling", "done"}

\* C31: after stop_all cancelled the dispatcher, whether it was waiting in
\* its poll or inside a connector's send, the dispatcher task terminates, no
\* connector send is called afterwards, and stop() is then called on every
\* connector of the manager.
C31_CancelStopsDispatcher ==
    /\ []C31_StopOrder
    /\ [][StopAllCalled => send_calls' = send_calls]_vars
    /\ StopAllCalled ~> (stop_task.dispatch_task = "done")
    /\ StopAllCalled ~> (stop_task.pc = "done")

\* the dispatcher was cancelled inside a send; stop() was then called on both
\* connectors, and the first stop() raised
C31_Witness ==
    /\ stop_task.pc = "done"
    /\ stop_task.cancelled_in = "sending"
    /\ stop_task.stopped = <<"telegram", "discord">>
    /\ stop_task.raised = {"telegram"}
    /\ outbound_queue # <<>>

(***************************************************************************)
(* Compaction of a session's message list (agent/compaction.py).           *)
(* A message is a record; the fields a Python dict lacks are None.  The    *)
(* content of message i of the original list is <<"text", i>>, the content *)
(* f"[Previous conversation summary]\n{summary}" is the pair of its parts. *)
(***************************************************************************)
MaxMessages == 6
MaxCompactions == 2
KeepRecents == 0..3
Summaries == {101, 102}

\* the kinds of message the agent loop appends after a list of these kinds
NextKinds(p) ==
    IF p = <<>> THEN {"system"}
    ELSE LET prev == p[Len(p)] IN
         IF prev \in {"system", "assistant"} THEN {"user"}
         ELSE IF prev \in {"user", "tool"} THEN {"assistant", "assistant_tool_calls"}
         ELSE {"tool"}

RECURSIVE Patterns(_)
\* the lists of kinds of n messages
Patterns(n) ==
    IF n = 0 THEN {<<>>}
    ELSE UNION {{Append(p, k) : k \in NextKinds(p)} : p \in Patterns(n - 1)}

\* message i of a list, of kind k; a tool call gets the id of its position
Message(k, i) ==
    [role |-> IF k = "assistant_tool_calls" THEN "assistant" ELSE k,
     content |-> <<"text", i>>,
     tool_calls |-> IF k = "assistant_tool_calls" THEN {i} ELSE {},
     tool_call_id |-> IF k = "tool" THEN i - 1 ELSE 0]

MessageLists ==
    {[i \in 1..Len(p) |-> Message(p[i], i)] :
        p \in UNION {Patterns(n) : n \in 1..MaxMessages}}

\* Python's messages[lo:hi] for 0 <= lo, hi
Slice(list, lo, hi) ==
    LET h == IF hi > Len(list) THEN Len(list) ELSE hi
    IN  IF lo >= h THEN <<>> ELSE SubSeq(list, lo + 1, h)

\* select_messages_to_compact(messages, keep_recent), with an off-by-one
\* comparison and with an off-by-one end
select_messages_to_compact_lt(list, keep) ==
    LET start == 1
        end == Len(list) - keep
    IN  IF end < start THEN <<0, 0>> ELSE <<start, end>>
select_messages_to_compact_end(list, keep) ==
    LET start == 1
        end == Len(list) - keep + 1
    IN  IF end <= start THEN <<0, 0>> ELSE <<start, end>>
select_messages_to_compact(list, keep) ==
    LET start == 1
        end == Len(list) - keep
    IN  IF end <= start THEN <<0, 0>> ELSE <<start, end>>

summary_message(summary) ==
    [role |-> "user", content |-> <<"[Previous conversation summary]", summary>>,
     tool_calls |-> {}, tool_call_id |-> 0]

\* apply_compaction(messages, start, end, summary); first one that keeps the
\* slice's last message
apply_compaction_keep(list, start, end, summary) ==
    Slice(list, 0, start) \o <<summary_message(summary)>>
        \o Slice(list, IF end > 0 THEN end - 1 ELSE 0, Len(list))
apply_compaction(list, start, end, summary) ==
    Slice(list, 0, start) \o <<summary_message(summary)>> \o Slice(list, end, Len(list))

NoCall == [op |-> "none"]

InitCompactionWith(list, keep) ==
    /\ messages = list
    /\ keep_recent = keep
    /\ original = list
    /\ compactions = <<>>
    /\ last_call = NoCall

InitCompaction ==
    \E list \in MessageLists, keep \in KeepRecents : InitCompactionWith(list, keep)
\* a fresh session with the default keep_recent
IdleCompaction == InitCompactionWith(<<Message("system", 1)>>, 6)

\* the agent loop's compaction step: when select_messages_to_compact yields
\* a non-empty slice the slice is replaced per apply_compaction
compact(summary) ==
    /\ UNCHANGED notCompaction
    /\ Len(compactions) < MaxCompactions
    /\ LET sel == select_messages_to_compact(messages, keep_recent) IN
       /\ last_call' = [op |-> "select_messages_to_compact", input |-> messages,
                        keep_recent |-> keep_recent, output |-> sel]
       /\ IF sel # <<0, 0>>
          THEN /\ messages' = apply_compaction(messages, sel[1], sel[2], summary)
               /\ compactions' = Append(compactions, summary)
          ELSE UNCHANGED <<messages, compactions>>
    /\ UNCHANGED <<keep_recent, original>>

\* a call apply_compaction(messages, start, end, summary); the caller's
\* list is what it was
apply_compaction_call(start, end, summary) ==
    /\ UNCHANGED notCompaction
    /\ start <= Len(messages)
    /\ end <= Len(messages)
    /\ last_call' = [op |-> "apply_compaction", input |-> messages,
                     start |-> start, end |-> end, summary |-> summary,
                     output |-> apply_compaction(messages, start, end, summary)]
    /\ UNCHANGED <<messages, keep_recent, original, compactions>>

NextCompaction ==
    \/ \E summary \in Summaries : compact(summary)
    \/ \E start, end \in 0..MaxMessages, summary \in Summaries :
          apply_compaction_call(start, end, summary)

(***************************************************************************)
(* Claims about compaction.                                                *)
(***************************************************************************)
\* the session invariant: the system prompt first and only first, a user
\* turn after the system prompt or after a finished assistant turn, an
\* assistant message after a user message or a tool result, a tool result
\* directly after the assistant message that carries its tool_call id
SessionInvariant(list) ==
    /\ Len(list) >= 1
    /\ list[1].role = "system"
    /\ \A i \in 2..Len(list) :
          /\ list[i].role # "system"
          /\ list[i].role = "user" =>
                \/ list[i - 1].role = "system"
                \/ list[i - 1].role = "assistant" /\ list[i - 1].tool_calls = {}
          /\ list[i].role = "assistant" => list[i - 1].role \in {"user", "tool"}
          /\ list[i].role = "tool" =>
                /\ list[i - 1].role = "assistant"
                /\ list[i].tool_call_id \in list[i - 1].tool_calls

\* C13: a message list that satisfies the session invariant still satisfies
\* it after apply_compaction with the slice select_messages_to_compact chose.
C13_InvariantPreserved == SessionInvariant(messages)

\* C14: apply_compaction returns messages[0:start], then one user message
\* "[Previous conversation summary]" plus the summary, then messages[end:]
\* in order: len(messages) - (end - start) + 1 entries; the input list is
\* left as it was.
C14_ApplyReplacesSlice ==
    last_call.op = "apply_compaction" =>
        LET in == last_call.input
            out == last_call.output
            start == last_call.start
            end == last_call.end
        IN  /\ Len(out) = Len(in) - (end - start) + 1
            /\ \A i \in 1..start : out[i] = in[i]
            /\ out[start + 1].role = "user"
            /\ out[start + 1].content =
                   <<"[Previous conversation summary]", last_call.summary>>
            /\ \A j \in 1..(Len(in) - end) : out[start + 1 + j] = in[end + j]
            /\ messages = in

\* a slice of two or more messages inside the list was replaced
C14_Witness ==
    /\ last_call.op = "apply_compaction"
    /\ last_call.start >= 1
    /\ last_call.end >= last_call.start + 2
    /\ last_call.end < Len(last_call.input)
    /\ Len(last_call.output) < Len(last_call.input)

\* C15: select_messages_to_compact returns (0, 0) exactly when
\* len(messages) <= keep_recent + 1 and else (1, len(messages) - keep_recent):
\* the selection leaves out index 0 and the last keep_recent messages.
C15_SelectBounds ==
    last_call.op = "select_messages_to_compact" =>
        LET n == Len(last_call.input)
            keep == last_call.keep_recent
            out == last_call.output
        IN  /\ (out = <<0, 0>>) <=> (n <= keep + 1)
            /\ out # <<0, 0>> =>
                  /\ out = <<1, n - keep>>
                  /\ out[1] >= 1
                  /\ out[1] < out[2]
                  /\ out[2] <= n - keep

\* a selection of several messages with a kept tail
C15_Witness ==
    /\ last_call.op = "select_messages_to_compact"
    /\ last_call.keep_recent >= 2
    /\ last_call.output[2] - last_call.output[1] >= 2

\* the last keep messages of a list
LastMessages(list, keep) == Slice(list, Len(list) - keep, Len(list))

\* C16: compacting the compacted list again with summary S2 gives what
\* compacting the original list once with S2 gives: the system prompt, one
\* summary message and the same last keep_recent messages; the list does not
\* grow.
C16_CompactionStable ==
    Len(compactions) = 2 =>
        LET sel == select_messages_to_compact(original, keep_recent) IN
        /\ messages = apply_compaction(original, sel[1], sel[2], compactions[2])
        /\ messages = <<original[1], summary_message(compactions[2])>>
                          \o LastMessages(original, keep_recent)
        /\ Len(messages) = keep_recent + 2
        /\ Len(messages) <= Len(original)

\* a list compacted twice, with two different summaries and a kept tail
C16_Witness ==
    /\ Len(compactions) = 2
    /\ compactions[1] # compactions[2]
    /\ keep_recent >= 2
    /\ Len(original) >= keep_recent + 3

(***************************************************************************)
(* to_dict / from_dict of the event types, called directly.                *)
(***************************************************************************)
Timestamps == {[sec |-> 10, usec |-> 0], [sec |-> 10, usec |-> 250],
               [sec |-> 11, usec |-> 0]}
MediaLists == {<<>>, <<"a.jpg">>, <<"a.jpg", "b.ogg">>}
Metadatas == {<<>>, [is_group |-> TRUE]}

AllInboundMessages ==
    [channel : {"telegram", "discord"}, sender_id : {<<123, "alice">>, <<999>>},
     chat_id : {<<123>>}, content : {"hi", ""}, timestamp : Timestamps,
     media : MediaLists, metadata : Metadatas]
AllOutboundMessages ==
    [channel : {"telegram", "discord"}, chat_id : {<<123>>, <<7>>},
     content : {"pong", ""}, reply_to : {None, "41"},
     media : MediaLists, metadata : Metadatas]

\* the fields of the dataclasses
InboundFields ==
    {"channel", "sender_id", "chat_id", "content", "timestamp", "media", "metadata"}
OutboundFields == {"channel", "chat_id", "content", "reply_to", "media", "metadata"}

\* keys that are no field of the other dataclass, added to a serialized dict
ExtraKeys(d) ==
    {d} \cup (IF "reply_to" \in DOMAIN d THEN {d @@ [sender_id |-> <<999>>]}
                                        ELSE {d @@ [reply_to |-> "41"]})

\* cls(**d): the dataclass __init__ takes the fields as keywords and raises
\* TypeError for any other keyword
accepts_keywords_any(d, fields) == TRUE
accepts_keywords(d, fields) == DOMAIN d \subseteq fields

NoEventCall == [op |-> "none"]
InitEvents == event_call = NoEventCall

\* InboundMessage.from_dict(m.to_dict())
InboundMessage_round_trip(m) ==
    /\ UNCHANGED notEvents
    /\ event_call' = [op |-> "InboundMessage.round_trip", input |-> m,
                      dict |-> InboundMessage_to_dict(m),
                      output |-> InboundMessage_from_dict(InboundMessage_to_dict(m))]

\* OutboundMessage.from_dict(m.to_dict())
OutboundMessage_round_trip(m) ==
    /\ UNCHANGED notEvents
    /\ event_call' = [op |-> "OutboundMessage.round_trip", input |-> m,
                      dict |-> OutboundMessage_to_dict(m),
                      output |-> OutboundMessage_from_dict(OutboundMessage_to_dict(m))]

\* InboundMessage.from_dict(d) for a dict that has every field and maybe more
InboundMessage_from_dict_call(d) ==
    /\ UNCHANGED notEvents
    /\ event_call' =
           IF accepts_keywords(d, InboundFields)
           THEN [op |-> "InboundMessage.from_dict", dict |-> d, error |-> None,
                 output |-> InboundMessage_from_dict(d)]
           ELSE [op |-> "InboundMessage.from_dict", dict |-> d, error |-> "TypeError",
                 output |-> None]

\* OutboundMessage.from_dict(d) for a dict that has every field and maybe more
OutboundMessage_from_dict_call(d) ==
    /\ UNCHANGED notEvents
    /\ event_call' =
           IF accepts_keywords(d, OutboundFields)
           THEN [op |-> "OutboundMessage.from_dict", dict |-> d, error |-> None,
                 output |-> OutboundMessage_from_dict(d)]
           ELSE [op |-> "OutboundMessage.from_dict", dict |-> d, error |-> "TypeError",
                 output |-> None]

NextEvents ==
    \/ \E m \in AllInboundMessages : InboundMessage_round_trip(m)
    \/ \E m \in AllOutboundMessages : OutboundMessage_round_trip(m)
    \/ \E m \in AllInboundMessages :
          \E d \in ExtraKeys(InboundMessage_to_dict(m)) : InboundMessage_from_dict_call(d)
    \/ \E m \in AllOutboundMessages :
          \E d \in ExtraKeys(OutboundMessage_to_dict(m)) : OutboundMessage_from_dict_call(d)

\* C17: InboundMessage.from_dict(m.to_dict()) equals m, timestamp, media and
\* metadata included, and OutboundMessage.from_dict(m.to_dict()) equals m,
\* with reply_to absent or present.
C17_RoundTrip ==
    event_call.op \in {"InboundMessage.round_trip", "OutboundMessage.round_trip"}
        => event_call.output = event_call.input

\* an InboundMessage with microseconds, media and metadata went through
C17_Witness ==
    /\ event_call.op = "InboundMessage.round_trip"
    /\ event_call.input.timestamp.usec # 0
    /\ event_call.input.media # <<>>
    /\ event_call.input.metadata # <<>>
    /\ event_call.dict.timestamp = <<"iso", 10, 250>>

\* C18: from_dict of either type fails and builds no message when the dict
\* has a key that is not a field of the type.
C18_UnknownKeyRejected ==
    /\ (event_call.op = "InboundMessage.from_dict"
          /\ ~(DOMAIN event_call.dict \subseteq InboundFields))
          => event_call.error # None /\ event_call.output = None
    /\ (event_call.op = "OutboundMessage.from_dict"
          /\ ~(DOMAIN event_call.dict \subseteq OutboundFields))
          => event_call.error # None /\ event_call.output = None

\* an OutboundMessage dict with a sender_id key was rejected
C18_Witness ==
    /\ event_call.op = "OutboundMessage.from_dict"
    /\ "sender_id" \in DOMAIN event_call.dict
    /\ event_call.error = "TypeError"

(***************************************************************************)
(* The frame reader _recv_msg (bus/network.py): a 4-byte big-endian length *)
(* and then that many bytes of JSON.  The bytes of a payload are counted,  *)
(* not listed; valid says whether they are a JSON document.                *)
(***************************************************************************)
MaxFrames == 2
\* the lengths a "!I" header can declare, some of them
HeaderLengths == {0, 1, 2, 1024, 16777216, 16777217, 2147483647}

IdleReader == [pc |-> "idle", length |-> 0, arrived |-> 0, valid |-> FALSE,
               error |-> None, returned |-> 0]
InitReader == frame_reader = IdleReader

\* _recv_msg is called and awaits readexactly(_HEADER_SIZE)
_recv_msg ==
    /\ UNCHANGED notReader
    /\ frame_reader.pc \in {"idle", "returned"}
    /\ frame_reader.returned < MaxFrames
    /\ frame_reader' = [frame_reader EXCEPT !.pc = "header", !.length = 0,
                                            !.arrived = 0, !.valid = FALSE]

\* the header is read and unpacked: readexactly(length) is awaited
header_read(length, valid) ==
    /\ UNCHANGED notReader
    /\ frame_reader.pc = "header"
    /\ frame_reader' = [frame_reader EXCEPT !.pc = "payload", !.length = length,
                                            !.valid = valid /\ length >= 1]

\* more bytes of the payload reach the stream's buffer
payload_arrives(n) ==
    /\ UNCHANGED notReader
    /\ frame_reader.pc = "payload"
    /\ frame_reader.arrived < n
    /\ n <= frame_reader.length
    /\ frame_reader' = [frame_reader EXCEPT !.arrived = n]

\* readexactly(length) has its bytes: json.loads returns the message or
\* raises JSONDecodeError
payload_read ==
    /\ UNCHANGED notReader
    /\ frame_reader.pc = "payload"
    /\ frame_reader.arrived = frame_reader.length
    /\ frame_reader' =
           IF frame_reader.valid
           THEN [frame_reader EXCEPT !.pc = "returned", !.returned = @ + 1]
           ELSE [frame_reader EXCEPT !.pc = "failed", !.error = "JSONDecodeError"]

\* the peer closes before the awaited bytes are there: IncompleteReadError
stream_eof ==
    /\ UNCHANGED notReader
    /\ \/ frame_reader.pc = "header"
       \/ frame_reader.pc = "payload" /\ frame_reader.arrived < frame_reader.length
    /\ frame_reader' = [frame_reader EXCEPT !.pc = "failed",
                                            !.error = "IncompleteReadError"]

NextReader ==
    \/ _recv_msg
    \/ \E length \in HeaderLengths, valid \in BOOLEAN : header_read(length, valid)
    \/ \E n \in HeaderLengths : payload_arrives(n)
    \/ payload_read
    \/ stream_eof

\* C19: for a header that declares more than the ceiling of 16 MiB the
\* reader fails with a protocol error, without waiting for the payload or
\* delivering it.
C19_OversizedFrameRejected ==
    (frame_reader.pc # "header" /\ frame_reader.length > 16 * 1024 * 1024) =>
        /\ frame_reader.pc = "failed"
        /\ frame_reader.error = "ProtocolError"
        /\ frame_reader.arrived = 0

(***************************************************************************)
(* The cron callback of the gateway in in-process mode (cli/commands.py).  *)
(***************************************************************************)
MaxCronRuns == 2

\* the jobs the cron service hands to the callback: payload.deliver,
\* payload.to and payload.channel, the optional ones None when not set
CronJobs ==
    [id : {"j1"}, message : {"ping"}, deliver : BOOLEAN,
     to : {None, "", "123"}, channel : {None, "telegram"}]

\* what agent.process_direct returns
Responses == {None, "done"}

\* Python's "x or default"
Or(x, default) == IF x \in {None, ""} THEN default ELSE x

InitCron == cron_runs = <<>>

\* on_cron_job(job), in-process: the agent processes the message and the
\* response is published when payload.deliver and payload.to are truthy
\* (the bus is a MessageBus in this mode)
on_cron_job(job, response) ==
    /\ UNCHANGED notCron
    /\ Len(cron_runs) < MaxCronRuns
    /\ cron_runs' = Append(cron_runs,
           [mode |-> "in-process", pc |-> "published", sent |-> <<>>, job |-> job,
            process_direct |-> [session_key |-> <<"cron", <<job.id>>>>,
                                channel |-> Or(job.channel, "cli"),
                                chat_id |-> Or(job.to, "direct")],
            response |-> response,
            published |->
                IF job.deliver /\ job.to \notin {None, ""}
                THEN <<[channel |-> Or(job.channel, "cli"), chat_id |-> job.to,
                        content |-> Or(response, ""), reply_to |-> None,
                        media |-> <<>>, metadata |-> <<>>]>>
                ELSE <<>>])

NextCron ==
    \E job \in CronJobs, response \in Responses : on_cron_job(job, response)

\* C20: the in-process cron callback publishes an OutboundMessage only for
\* a job with deliver true and both to and channel set.
C20_PublishOnlyWhenAllSet ==
    \A i \in 1..Len(cron_runs) :
        cron_runs[i].published # <<>> =>
            /\ cron_runs[i].job.deliver
            /\ cron_runs[i].job.to \notin {None, ""}
            /\ cron_runs[i].job.channel \notin {None, ""}

(***************************************************************************)
(* The cron callback in the gateway's two modes (cli/commands.py): with    *)
(* the agent in the gateway's process the callback calls it directly, with *)
(* an agent service the callback publishes an InboundMessage on the bus;   *)
(* the agent service processes it as a turn and its reply comes back to    *)
(* the gateway's outbound dispatcher.  A chat_id made of parts is the      *)
(* tuple of them: "123" is <<"123">>, f"cron:{job.id}" is <<"cron", id>>.  *)
(***************************************************************************)
\* on_cron_job(job), network mode: the job's message is published as an
\* InboundMessage of payload.channel or "cron", for the chat payload.to or
\* f"cron:{job.id}"; payload.deliver is not looked at
on_cron_job_network(job) ==
    /\ UNCHANGED notCron
    /\ Len(cron_runs) < MaxCronRuns
    /\ cron_runs' = Append(cron_runs,
           [mode |-> "network", pc |-> "inbound", sent |-> <<>>, job |-> job,
            inbound |-> [channel |-> Or(job.channel, "cron"), sender_id |-> "cron",
                         chat_id |-> IF job.to \in {None, ""} THEN <<"cron", job.id>>
                                     ELSE <<job.to>>,
                         content |-> job.message],
            published |-> <<>>])

\* the agent service's turn for the inbound message of run i: the session is
\* the one of the message's session_key, and the reply mirrors the
\* message's channel and chat_id
cron_turn(i, response) ==
    /\ UNCHANGED notCron
    /\ i \in 1..Len(cron_runs)
    /\ cron_runs[i].mode = "network"
    /\ cron_runs[i].pc = "inbound"
    /\ cron_runs' = [cron_runs EXCEPT ![i] =
           [mode |-> "network", pc |-> "published", sent |-> <<>>, job |-> @.job,
            inbound |-> @.inbound,
            session_key |-> session_key(@.inbound),
            published |-> <<[channel |-> @.inbound.channel, chat_id |-> @.inbound.chat_id,
                             content |-> response, reply_to |-> None,
                             media |-> <<>>, metadata |-> <<>>]>>]]

\* the gateway's dispatcher takes what run i put on the outbound side of the
\* bus: a message for a registered channel goes to that connector's send,
\* any other is dropped with a warning
cron_dispatch(i) ==
    /\ UNCHANGED notCron
    /\ i \in 1..Len(cron_runs)
    /\ cron_runs[i].pc = "published"
    /\ cron_runs' = [cron_runs EXCEPT
           ![i].pc = "dispatched",
           ![i].sent = SelectSeq(cron_runs[i].published,
                                 LAMBDA msg : \E k \in 1..Len(channel_registry) :
                                                 channel_registry[k] = msg.channel)]

\* what run i made a connector send
RunSends(i) == cron_runs[i].sent

\* the session run i appended the job's prompt to, <<>> before the turn
RunSession(i) ==
    IF cron_runs[i].mode = "in-process" THEN cron_runs[i].process_direct.session_key
    ELSE IF cron_runs[i].pc = "inbound" THEN <<>>
    ELSE cron_runs[i].session_key

NextCronModes ==
    \/ \E job \in CronJobs, response \in Responses : on_cron_job(job, response)
    \/ \E job \in CronJobs : on_cron_job_network(job)
    \/ \E i \in 1..MaxCronRuns : cron_turn(i, "done")
    \/ \E i \in 1..MaxCronRuns : cron_dispatch(i)

\* C39: a cron job whose deliver flag is false never makes a channel
\* connector send an OutboundMessage, in in-process mode and in network mode
\* alike.
C39_NoDeliverNoSend ==
    \A i \in 1..Len(cron_runs) :
        ~cron_runs[i].job.deliver => RunSends(i) = <<>>

\* the in-process half of C39: the run of a job with deliver false was
\* dispatched and no connector was made to send
C39_InProcessNoSend ==
    \A i \in 1..Len(cron_runs) :
        cron_runs[i].mode = "in-process" /\ ~cron_runs[i].job.deliver
            => RunSends(i) = <<>>

\* C40: a cron job's prompt is processed under the session key
\* f"cron:{job.id}" in network mode as in in-process mode, never under the
\* session of a user chat.
C40_SameSessionKey ==
    \A i \in 1..Len(cron_runs) :
        RunSession(i) # <<>> => RunSession(i) = <<"cron", <<cron_runs[i].job.id>>>>

\* the in-process half of C40
C40_InProcessSessionKey ==
    \A i \in 1..Len(cron_runs) :
        cron_runs[i].mode = "in-process"
            => RunSession(i) = <<"cron", <<cron_runs[i].job.id>>>>

(***************************************************************************)
(* The Agent Loop (agent/loop.py) on the in-process MessageBus             *)
(* (bus/queue.py), in the gateway's in-process mode (cli/commands.py):     *)
(* the run loop consumes the inbound queue and processes one turn per      *)
(* message, and the cron callback calls process_direct from the cron       *)
(* service's task on the same event loop.  A turn suspends at every LLM    *)
(* call and every tool invocation, so each of these is a step.             *)
(***************************************************************************)
MaxTurns == 3
max_iterations == 2

\* the chats the connectors publish from, and the messages they publish
AgentChats == {<<42>>, <<7>>}
AgentInbound ==
    {[channel |-> "telegram", sender_id |-> <<1>>, chat_id |-> c, content |-> "ping"] :
        c \in AgentChats}

\* f"cron:{job.id}", the session of the turns the cron callback runs
CronSessionKey == <<"cron", <<1>>>>
AgentSessionKeys == {session_key(m) : m \in AgentInbound} \cup {CronSessionKey}

\* the tasks that run turns on the one AgentLoop: agent.run() and the cron
\* service's task, which awaits on_cron_job -> agent.process_direct
Tasks == {"run", "cron"}
\* how many tool_calls an assistant message of the model carries
ToolCallCounts == {1, 2}

system_prompt ==
    [role |-> "system", content |-> <<"system prompt">>, tool_calls |-> {},
     tool_call_id |-> 0]
user_message(n) ==
    [role |-> "user", content |-> <<"text", n>>, tool_calls |-> {}, tool_call_id |-> 0]
assistant_text(content) ==
    [role |-> "assistant", content |-> content, tool_calls |-> {}, tool_call_id |-> 0]
\* the ids of the k tool_calls the provider returns in a round of turn n
tool_call_ids(n, round, k) == [j \in 1..k |-> n * 100 + round * 10 + j]
assistant_tool_calls(ids) ==
    [role |-> "assistant", content |-> <<>>,
     tool_calls |-> {ids[j] : j \in 1..Len(ids)}, tool_call_id |-> 0]
tool_message(id) ==
    [role |-> "tool", content |-> <<"result", id>>, tool_calls |-> {},
     tool_call_id |-> id]

tool_budget_exceeded == <<"tool budget exceeded">>
failure_notice == <<"failure notice">>

IdleTurn == [pc |-> "idle"]

\* one event loop: a task runs while every other task is suspended, waiting
\* for the inbound queue, for the provider or for a tool
OthersSuspended(t) == \A u \in Tasks \ {t} : turn[u].pc \in {"idle", "llm", "tools"}

IdleAgent ==
    /\ agent_inbound = <<>>
    /\ agent_published = <<>>
    /\ agent_sessions = [k \in AgentSessionKeys |-> <<>>]
    /\ turn = [t \in Tasks |-> IdleTurn]
    /\ turns = <<>>
    /\ agent_outbound = <<>>

\* MessageBus.publish_inbound(m): a connector puts a message on the queue
MessageBus_publish_inbound(m) ==
    /\ UNCHANGED notAgent
    /\ Len(agent_published) + Cardinality({n \in 1..Len(turns) : turns[n].task = "cron"})
          < MaxTurns
    /\ agent_published' = Append(agent_published, m)
    /\ agent_inbound' = Append(agent_inbound, Len(agent_published) + 1)
    /\ UNCHANGED <<agent_sessions, turn, turns, agent_outbound>>

\* SessionManager.get_or_create: a session that has no first message is
\* seeded with the system prompt
load_session(key) ==
    IF agent_sessions[key] = <<>> THEN <<system_prompt>> ELSE agent_sessions[key]

\* step 1, Ingest: load the session and append the user message
ingest(t, i, key) ==
    LET n == Len(turns) + 1
        ingested == Append(load_session(key), user_message(n))
    IN  /\ agent_sessions' = [agent_sessions EXCEPT ![key] = ingested]
        /\ turn' = [turn EXCEPT ![t] =
               [pc |-> "compact", n |-> n, key |-> key, ingested |-> ingested,
                iterations |-> 0, pending |-> <<>>, final |-> <<>>]]
        /\ turns' = Append(turns,
               [task |-> t, inbound |-> i, key |-> key, before |-> load_session(key),
                ingested |-> ingested, rounds |-> 0, compactions |-> 0,
                status |-> "running", final |-> <<>>, after |-> <<>>])

\* AgentLoop.run: consume_inbound returns the head of the queue and the
\* turn for it begins
run_consume_inbound ==
    /\ UNCHANGED notAgent
    /\ OthersSuspended("run")
    /\ turn["run"].pc = "idle"
    /\ agent_inbound # <<>>
    /\ agent_inbound' = Tail(agent_inbound)
    /\ LET i == Head(agent_inbound) IN
          ingest("run", i, session_key(agent_published[i]))
    /\ UNCHANGED <<agent_published, agent_outbound>>

\* AgentLoop.process_direct(text, session_key=f"cron:{job.id}"), called by
\* on_cron_job when the cron service fires a job
process_direct ==
    /\ UNCHANGED notAgent
    /\ OthersSuspended("cron")
    /\ turn["cron"].pc = "idle"
    /\ Len(agent_published) + Cardinality({n \in 1..Len(turns) : turns[n].task = "cron"})
          < MaxTurns
    /\ ingest("cron", 0, CronSessionKey)
    /\ UNCHANGED <<agent_inbound, agent_published, agent_outbound>>

\* what the session is after a provider failure: the session as ingested;
\* first a loop that leaves the session as the turn had it so far
after_failure_keep(t) == agent_sessions[turn[t].key]
after_failure(t) == turn[t].ingested

\* a provider call failed: the turn ends with a failure notice
provider_failed(t) ==
    /\ agent_sessions' = [agent_sessions EXCEPT ![turn[t].key] = after_failure(t)]
    /\ turn' = [turn EXCEPT ![t].pc = "publish", ![t].final = failure_notice]
    /\ turns' = [turns EXCEPT ![turn[t].n].status = "failed"]

\* step 2, Compact-if-needed: when the token estimate needs compaction and
\* select_messages_to_compact yields a non-empty slice, one LLM call
\* summarises the slice (or fails) and the slice is replaced; at most once
\* per turn
compact_if_needed(t, needs_compaction, summarised) ==
    /\ UNCHANGED notAgent
    /\ OthersSuspended(t)
    /\ turn[t].pc = "compact"
    /\ LET list == agent_sessions[turn[t].key]
           sel == select_messages_to_compact(list, 6)
       IN  IF needs_compaction /\ sel # <<0, 0>>
           THEN IF ~summarised
                THEN provider_failed(t)
                ELSE /\ agent_sessions' = [agent_sessions EXCEPT ![turn[t].key] =
                            apply_compaction(list, sel[1], sel[2], 101)]
                     /\ turn' = [turn EXCEPT ![t].pc = "llm"]
                     /\ turns' = [turns EXCEPT ![turn[t].n].compactions = @ + 1]
           ELSE /\ turn' = [turn EXCEPT ![t].pc = "llm"]
                /\ UNCHANGED <<agent_sessions, turns>>
    /\ UNCHANGED <<agent_inbound, agent_published, agent_outbound>>

\* the tool loop goes on while the iteration count is below the cap; first a
\* loop that allows one round more
budget_left_le(iterations) == iterations <= max_iterations
budget_left(iterations) == iterations < max_iterations

\* step 3, LLM call, (a): the provider returns the final assistant text
llm_text(t) ==
    /\ UNCHANGED notAgent
    /\ OthersSuspended(t)
    /\ turn[t].pc = "llm"
    /\ budget_left(turn[t].iterations)
    /\ LET final == <<"text", turn[t].n>> IN
       /\ agent_sessions' = [agent_sessions EXCEPT ![turn[t].key] =
              Append(@, assistant_text(final))]
       /\ turn' = [turn EXCEPT ![t].pc = "publish", ![t].final = final]
    /\ UNCHANGED <<agent_inbound, agent_published, turns, agent_outbound>>

\* step 3, LLM call, (b), and step 4: the provider returns k tool_calls and
\* the assistant message is appended verbatim
llm_tool_calls(t, k) ==
    /\ UNCHANGED notAgent
    /\ OthersSuspended(t)
    /\ turn[t].pc = "llm"
    /\ budget_left(turn[t].iterations)
    /\ LET ids == tool_call_ids(turn[t].n, turn[t].iterations, k) IN
       /\ agent_sessions' = [agent_sessions EXCEPT ![turn[t].key] =
              Append(@, assistant_tool_calls(ids))]
       /\ turn' = [turn EXCEPT ![t].pc = "tools", ![t].pending = ids]
    /\ turns' = [turns EXCEPT ![turn[t].n].rounds = @ + 1]
    /\ UNCHANGED <<agent_inbound, agent_published, agent_outbound>>

\* step 3, LLM call: the provider call fails
llm_fails(t) ==
    /\ UNCHANGED notAgent
    /\ OthersSuspended(t)
    /\ turn[t].pc = "llm"
    /\ budget_left(turn[t].iterations)
    /\ provider_failed(t)
    /\ UNCHANGED <<agent_inbound, agent_published, agent_outbound>>

\* step 4: the next tool_call is executed and its tool message appended;
\* after the last one of the round the loop goes back to the LLM call
execute_tool(t) ==
    /\ UNCHANGED notAgent
    /\ OthersSuspended(t)
    /\ turn[t].pc = "tools"
    /\ agent_sessions' = [agent_sessions EXCEPT ![turn[t].key] =
           Append(@, tool_message(Head(turn[t].pending)))]
    /\ turn' = [turn EXCEPT
           ![t].pending = Tail(@),
           ![t].iterations = IF Len(turn[t].pending) = 1 THEN @ + 1 ELSE @,
           ![t].pc = IF Len(turn[t].pending) = 1 THEN "llm" ELSE "tools"]
    /\ UNCHANGED <<agent_inbound, agent_published, turns, agent_outbound>>

\* step 4, on cap: a synthetic assistant turn "tool budget exceeded" is the
\* final text
budget_exceeded(t) ==
    /\ UNCHANGED notAgent
    /\ OthersSuspended(t)
    /\ turn[t].pc = "llm"
    /\ ~budget_left(turn[t].iterations)
    /\ agent_sessions' = [agent_sessions EXCEPT ![turn[t].key] =
           Append(@, assistant_text(tool_budget_exceeded))]
    /\ turn' = [turn EXCEPT ![t].pc = "publish", ![t].final = tool_budget_exceeded]
    /\ turns' = [turns EXCEPT ![turn[t].n].status = "capped"]
    /\ UNCHANGED <<agent_inbound, agent_published, agent_outbound>>

\* the turn is over: its record is closed
end_turn(t) ==
    /\ turn' = [turn EXCEPT ![t] = IdleTurn]
    /\ turns' = [turns EXCEPT
           ![turn[t].n].status = IF @ = "running" THEN "done" ELSE @,
           ![turn[t].n].final = turn[t].final,
           ![turn[t].n].after = agent_sessions[turn[t].key]]

\* step 5, Publish, in the run loop: the session is saved and one
\* OutboundMessage with the final text goes to the inbound's channel and chat
publish ==
    /\ UNCHANGED notAgent
    /\ OthersSuspended("run")
    /\ turn["run"].pc = "publish"
    /\ LET m == agent_published[turns[turn["run"].n].inbound] IN
          agent_outbound' = Append(agent_outbound,
              [turn |-> turn["run"].n, channel |-> m.channel, chat_id |-> m.chat_id,
               content |-> turn["run"].final])
    /\ end_turn("run")
    /\ UNCHANGED <<agent_inbound, agent_published, agent_sessions>>

\* process_direct returns the final text; nothing is published on the bus
process_direct_returns ==
    /\ UNCHANGED notAgent
    /\ OthersSuspended("cron")
    /\ turn["cron"].pc = "publish"
    /\ end_turn("cron")
    /\ UNCHANGED <<agent_inbound, agent_published, agent_sessions, agent_outbound>>

NextAgent ==
    \/ \E m \in AgentInbound : MessageBus_publish_inbound(m)
    \/ run_consume_inbound
    \/ process_direct
    \/ \E t \in Tasks, needs_compaction \in BOOLEAN, summarised \in BOOLEAN :
          compact_if_needed(t, needs_compaction, summarised)
    \/ \E t \in Tasks : llm_text(t)
    \/ \E t \in Tasks, k \in ToolCallCounts : llm_tool_calls(t, k)
    \/ \E t \in Tasks : llm_fails(t)
    \/ \E t \in Tasks : execute_tool(t)
    \/ \E t \in Tasks : budget_exceeded(t)
    \/ publish
    \/ process_direct_returns

(***************************************************************************)
(* Claims about the Agent Loop.                                            *)
(***************************************************************************)
\* a turn is in progress on the session
InTurn(key) == \E t \in Tasks : turn[t].pc # "idle" /\ turn[t].key = key

\* the assistant message a tool message at position i answers: the nearest
\* one before it with only tool messages in between
PrecedingAssistant(list, i) ==
    {j \in 1..(i - 1) :
        /\ list[j].role = "assistant"
        /\ \A k \in (j + 1)..(i - 1) : list[k].role = "tool"}

\* the messages between the assistant message at j and the next assistant
\* message
UntilNextAssistant(list, j) ==
    {k \in (j + 1)..Len(list) : \A a \in (j + 1)..k : list[a].role # "assistant"}

ToolCallsPaired(list) ==
    /\ list[1].role = "system"
    /\ \A i \in 1..Len(list) :
          list[i].role = "tool" =>
              \E j \in PrecedingAssistant(list, i) :
                  list[i].tool_call_id \in list[j].tool_calls
    /\ \A j \in 1..Len(list) :
          \A id \in list[j].tool_calls :
              Cardinality({k \in UntilNextAssistant(list, j) :
                              list[k].role = "tool" /\ list[k].tool_call_id = id}) = 1

\* C22: after any number of turns every session starts with the system
\* prompt, every tool message answers a tool_call of the assistant message
\* just before it, and every tool_call is answered by exactly one tool
\* message before the next assistant message.
C22_SessionsWellFormed ==
    \A key \in AgentSessionKeys :
        (~InTurn(key) /\ agent_sessions[key] # <<>>) => ToolCallsPaired(agent_sessions[key])

\* C23: the Agent Loop processes one turn at a time, no two turns of any
\* sessions are in progress at once, and the turns of one session_key run in
\* the order in which their inbound messages were published.
C23_OneTurnAtATime ==
    /\ Cardinality({t \in Tasks : turn[t].pc # "idle"}) <= 1
    /\ \A a, b \in 1..Len(turns) :
          (a < b /\ turns[a].inbound # 0 /\ turns[b].inbound # 0
                 /\ turns[a].key = turns[b].key) =>
              /\ turns[a].inbound < turns[b].inbound
              /\ turns[a].status # "running"

\* the OutboundMessages published for turn n
OutboundOf(n) == {i \in 1..Len(agent_outbound) : agent_outbound[i].turn = n}

\* C24: a turn makes at most max_iterations rounds of tool calls; a turn in
\* which the provider returned tool_calls in every round ends with the final
\* text "tool budget exceeded", and the run loop publishes exactly one
\* OutboundMessage for it, carrying that text.
C24_ToolBudgetCapsTurn ==
    \A n \in 1..Len(turns) :
        /\ turns[n].rounds <= max_iterations
        /\ Cardinality(OutboundOf(n)) <= 1
        /\ ~(turns[n].rounds = max_iterations /\ turns[n].status = "done")
        /\ (turns[n].status = "capped" /\ turns[n].after # <<>>) =>
              /\ turns[n].rounds = max_iterations
              /\ turns[n].final = tool_budget_exceeded
              /\ turns[n].after[Len(turns[n].after)] = assistant_text(tool_budget_exceeded)
              /\ turns[n].task = "run" =>
                    /\ Cardinality(OutboundOf(n)) = 1
                    /\ \A i \in OutboundOf(n) :
                          agent_outbound[i].content = tool_budget_exceeded

\* a turn of the run loop used up its tool budget and was published
C24_Witness ==
    \E n \in 1..Len(turns) :
        /\ turns[n].task = "run"
        /\ turns[n].status = "capped"
        /\ turns[n].after # <<>>
        /\ OutboundOf(n) # {}

\* C25: a turn whose provider call failed leaves the session as it was
\* loaded plus the appended user message; the run loop publishes exactly one
\* OutboundMessage for it, a failure notice to the inbound's channel and
\* chat_id, and is back at consuming the inbound queue.
C25_ProviderFailureEndsTurn ==
    \A n \in 1..Len(turns) :
        (turns[n].status = "failed" /\ turns[n].after # <<>>) =>
            /\ turns[n].after = Append(turns[n].before, user_message(n))
            /\ turns[n].final = failure_notice
            /\ turns[n].task = "run" =>
                  /\ Cardinality(OutboundOf(n)) = 1
                  /\ \A i \in OutboundOf(n) :
                        /\ agent_outbound[i].content = failure_notice
                        /\ agent_outbound[i].channel =
                               agent_published[turns[n].inbound].channel
                        /\ agent_outbound[i].chat_id =
                               agent_published[turns[n].inbound].chat_id
                  /\ turn["run"].pc = "idle" \/ turn["run"].n > n

\* the provider failed after a round of tool calls in a turn of the run
\* loop, and the loop has finished the turn of the next inbound message
C25_Witness ==
    \E n \in 1..Len(turns) :
        /\ turns[n].task = "run"
        /\ turns[n].status = "failed"
        /\ turns[n].rounds >= 1
        /\ \E later \in (n + 1)..Len(turns) :
              /\ turns[later].task = "run"
              /\ turns[later].status = "done"
              /\ turns[later].after # <<>>

(***************************************************************************)
(* The Cron Service (cron/service.py): the job store, the clock and the    *)
(* scheduler's wake-up, as specified.  Times are in ms on the service's    *)
(* monotonic clock; NoTime stands for an absent next_run_at_ms or          *)
(* last_run_at_ms.                                                         *)
(***************************************************************************)
MaxClock == 4
MaxRuns == 2
NoTime == 0

JobIds == {1, 2}
\* every 1 ms, the cron expression whose slots are the multiples of 2, and
\* once at 2
Schedules ==
    {[kind |-> "every", every_ms |-> 1, at_ms |-> NoTime],
     [kind |-> "cron", every_ms |-> 2, at_ms |-> NoTime],
     [kind |-> "at", every_ms |-> NoTime, at_ms |-> 2]}
\* the clock moves on by a tick, or by a jump or long pause
ClockSteps == {1, 3}

NoJob == [kind |-> "none"]
NoWake == [now |-> NoTime, fired |-> <<>>]

InitService ==
    /\ clock = 1
    /\ store = [id \in JobIds |-> NoJob]
    /\ last_wake = NoWake
    /\ scheduled_fires = [id \in JobIds |-> 0]

Max(a, b) == IF a >= b THEN a ELSE b

\* the first slot of the cron expression after time t
next_slot(period, t) == (t \div period + 1) * period

\* next_run_at_ms of a job at time now; first one that re-adds the period
\* to the job's previous next_run_at_ms
compute_next_run_backfill(job, now) ==
    IF job.kind = "every"
    THEN (IF job.next_run_at_ms = NoTime THEN now ELSE job.next_run_at_ms) + job.every_ms
    ELSE IF job.kind = "cron"
    THEN next_slot(job.every_ms, IF job.next_run_at_ms = NoTime THEN now
                                 ELSE job.next_run_at_ms)
    ELSE IF job.last_run_at_ms = NoTime THEN job.at_ms ELSE NoTime
compute_next_run(job, now) ==
    IF job.kind = "every"
    THEN (IF job.last_run_at_ms = NoTime THEN now ELSE job.last_run_at_ms) + job.every_ms
    ELSE IF job.kind = "cron"
    THEN next_slot(job.every_ms, Max(now, job.last_run_at_ms))
    ELSE IF job.last_run_at_ms = NoTime THEN job.at_ms ELSE NoTime

\* whether a job stays enabled after it fired; first one that leaves the
\* flag alone
enabled_after_fire_keep(job) == job.enabled
enabled_after_fire(job) == job.enabled /\ job.kind # "at"

\* the job after it fired at time now: last_run_at_ms, run_count, the
\* enabled flag and next_run_at_ms are updated before the callback runs
execute_job(job, now) ==
    LET ran == [job EXCEPT !.last_run_at_ms = now, !.run_count = @ + 1,
                           !.enabled = enabled_after_fire(job)]
    IN  [ran EXCEPT !.next_run_at_ms = compute_next_run(ran, now)]

is_due(job, now) ==
    /\ job.kind # "none"
    /\ job.enabled
    /\ job.next_run_at_ms # NoTime
    /\ job.next_run_at_ms <= now

\* the due job to fire first: ascending next_run_at_ms
first_due(jobs, now) ==
    CHOOSE id \in JobIds :
        /\ is_due(jobs[id], now)
        /\ \A other \in JobIds :
              is_due(jobs[other], now) =>
                  \/ jobs[id].next_run_at_ms < jobs[other].next_run_at_ms
                  \/ jobs[id].next_run_at_ms = jobs[other].next_run_at_ms /\ id <= other

RECURSIVE fire_due(_, _, _)
\* the scheduler fires the jobs whose next_run_at_ms <= now until none is
\* due; the result is the store and the ids fired, in order
fire_due(jobs, now, fired) ==
    IF \E id \in JobIds : is_due(jobs[id], now)
    THEN LET id == first_due(jobs, now) IN
         fire_due([jobs EXCEPT ![id] = execute_job(jobs[id], now)], now,
                  Append(fired, id))
    ELSE [jobs |-> jobs, fired |-> fired]

Count(seq, x) == Cardinality({i \in 1..Len(seq) : seq[i] = x})

\* add_job(name, schedule, ...)
add_job(id, schedule) ==
    /\ UNCHANGED notService
    /\ store[id] = NoJob
    /\ LET job == [kind |-> schedule.kind, every_ms |-> schedule.every_ms,
                   at_ms |-> schedule.at_ms, enabled |-> TRUE,
                   next_run_at_ms |-> NoTime, last_run_at_ms |-> NoTime,
                   run_count |-> 0]
       IN  store' = [store EXCEPT ![id] =
               [job EXCEPT !.next_run_at_ms = compute_next_run(job, clock)]]
    /\ scheduled_fires' = [scheduled_fires EXCEPT ![id] = 0]
    /\ UNCHANGED <<clock, last_wake>>

\* remove_job(job_id)
remove_job(id) ==
    /\ UNCHANGED notService
    /\ store[id] # NoJob
    /\ store' = [store EXCEPT ![id] = NoJob]
    /\ UNCHANGED <<clock, last_wake, scheduled_fires>>

\* enable_job(job_id, enabled)
enable_job(id, enabled) ==
    /\ UNCHANGED notService
    /\ store[id] # NoJob
    /\ store' = [store EXCEPT ![id].enabled = enabled]
    /\ UNCHANGED <<clock, last_wake, scheduled_fires>>

\* run_job(job_id, force): a manual immediate fire; a disabled job is run
\* only with force
run_job(id, force) ==
    /\ UNCHANGED notService
    /\ store[id] # NoJob
    /\ store[id].run_count < MaxRuns
    /\ IF force \/ store[id].enabled
       THEN store' = [store EXCEPT ![id] = execute_job(store[id], clock)]
       ELSE UNCHANGED store
    /\ UNCHANGED <<clock, last_wake, scheduled_fires>>

\* time passes
clock_advance(d) ==
    /\ UNCHANGED notService
    /\ clock + d <= MaxClock
    /\ clock' = clock + d
    /\ UNCHANGED <<store, last_wake, scheduled_fires>>

\* the scheduler wakes and fires what is due
on_timer ==
    /\ UNCHANGED notService
    /\ LET done == fire_due(store, clock, <<>>) IN
       /\ store' = done.jobs
       /\ last_wake' = [now |-> clock, fired |-> done.fired,
                        due |-> [id \in JobIds |->
                                    IF is_due(store[id], clock)
                                    THEN store[id].next_run_at_ms ELSE NoTime]]
       /\ scheduled_fires' = [id \in JobIds |->
              scheduled_fires[id] + Count(done.fired, id)]
    /\ UNCHANGED clock

NextService ==
    \/ \E id \in JobIds, schedule \in Schedules : add_job(id, schedule)
    \/ \E id \in JobIds : remove_job(id)
    \/ \E id \in JobIds, enabled \in BOOLEAN : enable_job(id, enabled)
    \/ \E id \in JobIds, force \in BOOLEAN : run_job(id, force)
    \/ \E d \in ClockSteps : clock_advance(d)
    \/ on_timer

\* C26: for every job that has fired at least once last_run_at_ms <= now,
\* and next_run_at_ms > last_run_at_ms while the job is enabled and
\* recurring, whatever ticks, manual runs, enable/disable operations and
\* clock jumps came before.
C26_RunTimesOrdered ==
    \A id \in JobIds :
        (store[id] # NoJob /\ store[id].run_count >= 1) =>
            /\ store[id].last_run_at_ms # NoTime
            /\ store[id].last_run_at_ms <= clock
            /\ (store[id].enabled /\ store[id].kind \in {"every", "cron"}) =>
                  store[id].next_run_at_ms > store[id].last_run_at_ms

\* the scheduler has just fired, for the second time or later, an enabled
\* recurring job more than a period after it was due
C26_Witness ==
    \E id \in JobIds :
        /\ store[id] # NoJob
        /\ store[id].kind = "every"
        /\ store[id].enabled
        /\ store[id].run_count >= 2
        /\ last_wake.now = clock
        /\ id \in {last_wake.fired[i] : i \in 1..Len(last_wake.fired)}
        /\ last_wake.due[id] + store[id].every_ms < clock

\* C27: when the scheduler wakes, a job whose due time is past, by however
\* many periods, fires exactly once in that wake-up, and a job that is not
\* due does not fire; an `at` job is fired by the scheduler at most once
\* and is disabled by its firing.
C27_LateFiresOnce ==
    [][/\ \A id \in JobIds :
             last_wake' # NoWake =>
                 Count(last_wake'.fired, id) =
                     IF last_wake'.due[id] # NoTime THEN 1 ELSE 0
       /\ \A id \in JobIds :
             (store'[id] # NoJob /\ store'[id].kind = "at") =>
                 /\ scheduled_fires'[id] <= 1
                 /\ (store[id] # NoJob /\ store'[id].run_count > store[id].run_count) =>
                       ~store'[id].enabled]_vars

\* a wake-up fired a recurring job that was more than two periods late, and
\* an `at` job has fired
C27_Witness ==
    /\ last_wake # NoWake
    /\ \E id \in JobIds :
          /\ store[id] # NoJob
          /\ store[id].kind \in {"every", "cron"}
          /\ last_wake.due[id] # NoTime
          /\ last_wake.due[id] + 2 * store[id].every_ms <= last_wake.now
          /\ Count(last_wake.fired, id) = 1
    /\ \E id \in JobIds :
          /\ store[id] # NoJob
          /\ store[id].kind = "at"
          /\ scheduled_fires[id] = 1
          /\ ~store[id].enabled

(***************************************************************************)
(* _split_message (channels/telegram.py).  A text is the sequence of its   *)
(* characters; positions are Python's, counted from 0.                     *)
(***************************************************************************)
MaxTextLen == 6
MaxSplitLength == 3

Chars == {"a", " ", "\n"}
RECURSIVE TextsOfLen(_)
TextsOfLen(n) ==
    IF n = 0 THEN {<<>>}
    ELSE {Append(t, c) : t \in TextsOfLen(n - 1), c \in Chars}
\* a text that is split by each of the four rules in turn when max_length is 3
LongTexts == {<<"a", "\n", "\n", "a", "\n", "a", " ", "a", "a", "a", "a">>}
SplitTexts == UNION {TextsOfLen(n) : n \in 0..MaxTextLen} \cup LongTexts

NoSplit == [op |-> "none"]
IdleSplit == split_call = NoSplit
\* the arguments of a call about to be made
InitSplit ==
    \E text \in SplitTexts, max_length \in 1..MaxSplitLength :
        split_call = [op |-> "call", text |-> text, max_length |-> max_length]

\* text starts with sep at position p
StartsAt(text, sep, p) ==
    /\ p + Len(sep) <= Len(text)
    /\ \A i \in 1..Len(sep) : text[p + i] = sep[i]

\* text.rfind(sep, 0, end): the last position where sep occurs inside
\* text[0:end], -1 when there is none; first one that searches the whole text
rfind_whole(text, sep, end) ==
    LET found == {p \in 0..Len(text) : StartsAt(text, sep, p)}
    IN  IF found = {} THEN -1 ELSE CHOOSE p \in found : \A q \in found : q <= p
rfind(text, sep, end) ==
    LET found == {p \in 0..Len(text) :
                     StartsAt(text, sep, p) /\ p + Len(sep) <= Min(end, Len(text))}
    IN  IF found = {} THEN -1 ELSE CHOOSE p \in found : \A q \in found : q <= p

\* how many newlines text.lstrip("\n") removes
RECURSIVE leading_newlines(_)
leading_newlines(text) ==
    IF text # <<>> /\ text[1] = "\n" THEN 1 + leading_newlines(Tail(text)) ELSE 0

\* the separator the loop splits at, "" for the hard cut: the first of
\* "\n\n", "\n", " " that rfind finds at a position > 0
split_sep(text, max_length) ==
    IF rfind(text, <<"\n", "\n">>, max_length) > 0 THEN <<"\n", "\n">>
    ELSE IF rfind(text, <<"\n">>, max_length) > 0 THEN <<"\n">>
    ELSE IF rfind(text, <<" ">>, max_length) > 0 THEN <<" ">>
    ELSE <<>>

\* where the loop cuts, when a space found at position 0 is taken too
split_at_from_zero(text, max_length) ==
    LET sep == split_sep(text, max_length)
    IN  IF sep # <<>> THEN rfind(text, sep, max_length)
        ELSE IF rfind(text, <<" ">>, max_length) = 0 THEN 0
        ELSE max_length
split_at(text, max_length) ==
    LET sep == split_sep(text, max_length)
    IN  IF sep = <<>> THEN max_length ELSE rfind(text, sep, max_length)

RECURSIVE split_loop(_, _)
\* the while loop: per chunk, the chunk, the separator chosen for the split
\* after it and the number of newlines stripped from what follows
split_loop(text, max_length) ==
    IF text = <<>> THEN <<>>
    ELSE IF Len(text) <= max_length
    THEN <<[chunk |-> text, sep |-> <<>>, stripped |-> 0]>>
    ELSE LET at == split_at(text, max_length)
             rest == Slice(text, at, Len(text))
             n == leading_newlines(rest)
         IN  <<[chunk |-> Slice(text, 0, at), sep |-> split_sep(text, max_length),
                stripped |-> n]>>
                 \o split_loop(Slice(rest, n, Len(rest)), max_length)

split_steps(text, max_length) ==
    IF Len(text) <= max_length
    THEN <<[chunk |-> text, sep |-> <<>>, stripped |-> 0]>>
    ELSE split_loop(text, max_length)

\* _split_message(text, max_length): the chunks
_split_message(text, max_length) ==
    LET steps == split_steps(text, max_length)
    IN  [i \in 1..Len(steps) |-> steps[i].chunk]

\* the call _split_message(text, max_length) returns
split_message_call ==
    /\ UNCHANGED notSplit
    /\ split_call.op = "call"
    /\ split_call' =
           [op |-> "_split_message", text |-> split_call.text,
            max_length |-> split_call.max_length,
            steps |-> split_steps(split_call.text, split_call.max_length),
            chunks |-> _split_message(split_call.text, split_call.max_length)]

NextSplit == split_message_call

\* C28: every chunk _split_message(text, max_length) returns is at most
\* max_length long, for every text and every max_length >= 1, whichever
\* rule split it off.
C28_ChunksWithinMaxLength ==
    split_call.op = "_split_message" =>
        \A i \in 1..Len(split_call.chunks) :
            Len(split_call.chunks[i]) <= split_call.max_length

\* a call that split by paragraph break, by newline, by space and by hard
\* cut, the hard cut giving a chunk of exactly max_length
C28_Witness ==
    /\ split_call.op = "_split_message"
    /\ \A sep \in {<<"\n", "\n">>, <<"\n">>, <<" ">>, <<>>} :
          \E i \in 1..(Len(split_call.steps) - 1) : split_call.steps[i].sep = sep
    /\ \E i \in 1..(Len(split_call.steps) - 1) :
          /\ split_call.steps[i].sep = <<>>
          /\ Len(split_call.chunks[i]) = split_call.max_length

\* _split_message(text, max_length) up to its loop: a text that fits is
\* returned as the only chunk
split_message_enter ==
    /\ UNCHANGED notSplit
    /\ split_call = NoSplit
    /\ \E text \in SplitTexts, max_length \in 1..MaxSplitLength :
         split_call' =
           IF Len(text) <= max_length
           THEN [op |-> "returned", text |-> text, max_length |-> max_length,
                 rest |-> <<>>, chunks |-> <<text>>]
           ELSE [op |-> "while", text |-> text, max_length |-> max_length,
                 rest |-> text, chunks |-> <<>>]

\* one iteration of "while text": the rest that fits is the last chunk,
\* else the rest is cut at split_at and the newlines that follow are
\* stripped; the loop ends by the break or with nothing left
while_text ==
    /\ UNCHANGED notSplit
    /\ split_call.op = "while"
    /\ \E text \in {split_call.rest}, max_length \in {split_call.max_length} :
       \E at \in {split_at(text, max_length)} :
       \E cut \in {Slice(text, at, Len(text))} :
       \E rest \in {Slice(cut, leading_newlines(cut), Len(cut))} :
           split_call' =
               IF Len(text) <= max_length
               THEN [split_call EXCEPT !.op = "returned", !.rest = <<>>,
                                       !.chunks = Append(@, text)]
               ELSE [split_call EXCEPT !.op = IF rest = <<>> THEN "returned" ELSE "while",
                                       !.rest = rest,
                                       !.chunks = Append(@, Slice(text, 0, at))]

NextSplitLoop ==
    \/ split_message_enter
    \/ while_text

\* C38: _split_message terminates for every text and every max_length >= 1:
\* each iteration of its loop removes at least one character from the
\* remaining text, and no returned chunk is empty when the input is longer
\* than max_length.
C38_SplitTerminates ==
    /\ [][split_call.op = "while" =>
             /\ Len(split_call'.rest) < Len(split_call.rest)
             /\ Len(split_call'.chunks) = Len(split_call.chunks) + 1]_vars
    /\ [](split_call.op \in {"while", "returned"} /\ Len(split_call.text) > split_call.max_length
             => \A i \in 1..Len(split_call.chunks) : split_call.chunks[i] # <<>>)
    /\ <>(split_call.op = "returned")

\* a call has returned after four iterations of the loop, one of which cut
\* a text that starts with a space and has no other separator
C38_Witness ==
    /\ split_call.op = "returned"
    /\ Len(split_call.chunks) = 4
    /\ \E i \in 1..4 : split_call.chunks[i][1] = " "
                          /\ Len(split_call.chunks[i]) = split_call.max_length
    /\ split_call.max_length = 2

\* the loop returns what the function of the whole text gives
SplitLoopIsSplitMessage ==
    split_call.op = "returned" =>
        split_call.chunks = _split_message(split_call.text, split_call.max_length)

\* n newlines
RECURSIVE Newlines(_)
Newlines(n) == IF n = 0 THEN <<>> ELSE <<"\n">> \o Newlines(n - 1)

\* the newlines of a separator
NewlinesIn(sep) == Cardinality({i \in 1..Len(sep) : sep[i] = "\n"})

RECURSIVE Rejoined(_)
\* the chunks joined again, each split with the separator chosen for it and
\* the newlines that were stripped beyond that separator
Rejoined(steps) ==
    IF steps = <<>> THEN <<>>
    ELSE LET s == steps[1]
             extra == IF s.stripped > NewlinesIn(s.sep)
                      THEN s.stripped - NewlinesIn(s.sep) ELSE 0
         IN  s.chunk \o s.sep \o Newlines(extra) \o Rejoined(Tail(steps))

\* C29: the chunks of _split_message, joined again with the separator
\* chosen at each split, are the input text but for the newlines stripped
\* from the start of the non-first chunks; no other character is dropped,
\* duplicated or moved.
C29_RejoinedIsInput ==
    split_call.op = "_split_message" => Rejoined(split_call.steps) = split_call.text

(***************************************************************************)
(* Gateway startup (cli/commands.py, _run_gateway_foreground): the probe   *)
(* of the agent port, the choice of the bus, the AgentLoop, the callbacks  *)
(* and the run.  The agent service comes and goes on its own.              *)
(***************************************************************************)
MaxGatewayRuns == 3

\* the agent port accepts connections, refuses them, or does not answer
\* within the probe's timeout
ServiceStates == {"listening", "refusing", "silent"}

GatewayStart ==
    [pc |-> "start", probe |-> "None", use_network |-> FALSE, bus |-> "None",
     agent |-> FALSE, on_cron_job |-> "None", on_heartbeat |-> "None"]

InitGatewayWith(service) ==
    /\ agent_service = service
    /\ gateway = GatewayStart
    /\ gateway_modes = <<>>

InitGateway == \E service \in ServiceStates : InitGatewayWith(service)
IdleGateway == InitGatewayWith("refusing")

\* the agent daemon is started, stopped or hangs
agent_service_changes(service) ==
    /\ UNCHANGED notGateway
    /\ service # agent_service
    /\ agent_service' = service
    /\ UNCHANGED <<gateway, gateway_modes>>

\* _try_connect_agent(host, port): True when sock.connect succeeds within
\* the timeout; ConnectionRefusedError and OSError (a timeout is one) give
\* False
_try_connect_agent(service) == service = "listening"

\* use_network = _try_connect_agent(agent_host, agent_port)
probe_agent ==
    /\ UNCHANGED notGateway
    /\ gateway.pc = "start"
    /\ Len(gateway_modes) < MaxGatewayRuns
    /\ gateway' = [gateway EXCEPT !.pc = "probed", !.probe = agent_service,
                                  !.use_network = _try_connect_agent(agent_service)]
    /\ UNCHANGED <<agent_service, gateway_modes>>

\* if use_network: bus = NetworkBusClient(...) else: bus = MessageBus();
\* provider = _make_provider(config), which exits when no API key is
\* configured
make_bus(provider_made) ==
    /\ UNCHANGED notGateway
    /\ gateway.pc = "probed"
    /\ IF gateway.use_network
       THEN /\ gateway' = [gateway EXCEPT !.pc = "bus", !.bus = "NetworkBusClient"]
            /\ UNCHANGED gateway_modes
       ELSE IF provider_made
            THEN /\ gateway' = [gateway EXCEPT !.pc = "bus", !.bus = "MessageBus"]
                 /\ UNCHANGED gateway_modes
            ELSE /\ gateway' = GatewayStart
                 /\ gateway_modes' = Append(gateway_modes, "exit")
    /\ UNCHANGED agent_service

\* whether an AgentLoop is created: if not use_network and the bus is a
\* MessageBus; first a gateway that always creates one
creates_agent_always(use_network, bus) == TRUE
creates_agent(use_network, bus) == ~use_network /\ bus = "MessageBus"

\* agent = AgentLoop(...), and the cron and heartbeat callbacks: with an
\* agent they call agent.process_direct, without one they publish inbound
\* messages on the bus
make_agent ==
    /\ UNCHANGED notGateway
    /\ gateway.pc = "bus"
    /\ LET agent == creates_agent(gateway.use_network, gateway.bus) IN
          gateway' = [gateway EXCEPT
              !.pc = "ready", !.agent = agent,
              !.on_cron_job = IF agent THEN "process_direct" ELSE "publish_inbound",
              !.on_heartbeat = IF agent THEN "process_direct" ELSE "publish_inbound"]
    /\ UNCHANGED <<agent_service, gateway_modes>>

\* run(): in network mode bus.connect() first, which raises when the agent
\* port no longer accepts; then cron, heartbeat, the channels and, with an
\* agent, agent.run()
run ==
    /\ UNCHANGED notGateway
    /\ gateway.pc = "ready"
    /\ IF gateway.use_network /\ gateway.bus = "NetworkBusClient"
          /\ agent_service # "listening"
       THEN /\ gateway' = GatewayStart
            /\ gateway_modes' = Append(gateway_modes, "connect failed")
       ELSE /\ gateway' = [gateway EXCEPT !.pc = "running"]
            /\ UNCHANGED gateway_modes
    /\ UNCHANGED agent_service

\* KeyboardInterrupt: the run ends; the gateway can be started again
keyboard_interrupt ==
    /\ UNCHANGED notGateway
    /\ gateway.pc = "running"
    /\ gateway' = GatewayStart
    /\ gateway_modes' = Append(gateway_modes,
           IF gateway.use_network THEN "network" ELSE "in-process")
    /\ UNCHANGED agent_service

NextGateway ==
    \/ \E service \in ServiceStates : agent_service_changes(service)
    \/ probe_agent
    \/ \E provider_made \in BOOLEAN : make_bus(provider_made)
    \/ make_agent
    \/ run
    \/ keyboard_interrupt

\* the gateway has a network client and no AgentLoop
NetworkMode(g) ==
    /\ g.bus = "NetworkBusClient"
    /\ ~g.agent
    /\ g.on_cron_job = "publish_inbound"
\* the gateway has an in-process bus and its own AgentLoop
InProcessMode(g) ==
    /\ g.bus = "MessageBus"
    /\ g.agent
    /\ g.on_cron_job = "process_direct"

\* C30: a gateway that is ready to run or running is in exactly one mode,
\* network mode when the agent port accepted the probe's connection and
\* in-process mode otherwise, and it keeps bus and agent for the whole run
\* whatever the agent service does meanwhile.
C30_OneModePerRun ==
    [][/\ gateway'.pc \in {"ready", "running"} =>
             /\ NetworkMode(gateway') # InProcessMode(gateway')
             /\ NetworkMode(gateway') <=> gateway'.probe = "listening"
       /\ (gateway.pc \in {"ready", "running"} /\ gateway'.pc = "running") =>
             /\ gateway'.bus = gateway.bus
             /\ gateway'.agent = gateway.agent]_vars

\* after a run in in-process mode the gateway runs in network mode, and the
\* agent service has gone away during the run
C30_Witness ==
    /\ gateway.pc = "running"
    /\ NetworkMode(gateway)
    /\ agent_service = "refusing"
    /\ \E i \in 1..Len(gateway_modes) : gateway_modes[i] = "in-process"

(***************************************************************************)
(* The frame writer _send_msg (bus/network.py) under concurrent callers:   *)
(* the tasks that call publish_inbound on one NetworkBusClient write to    *)
(* its _writer, the tasks that call publish_outbound on the server write   *)
(* to the writer of the same client.  A stream is the sequence of bytes    *)
(* its transport was given; the receiver reads it with _recv_msg.          *)
(***************************************************************************)
MaxSends == 3
Writers == {"client._writer", "server._clients[0]"}
SendTasks == {"t1", "t2"}
\* json.dumps(payload).encode(), for some payloads
Payloads == {<<123, 125>>, <<34, 97, 34>>}

IdleSend == [pc |-> "idle", writer |-> None, pending |-> <<>>]

InitWriter ==
    /\ stream = [w \in Writers |-> <<>>]
    /\ send_task = [t \in SendTasks |-> IdleSend]
    /\ frames_written = [w \in Writers |-> <<>>]

\* struct.pack("!I", n) and struct.unpack("!I", header)
pack(n) == <<(n \div 16777216) % 256, (n \div 65536) % 256, (n \div 256) % 256, n % 256>>
unpack(header) == header[1] * 16777216 + header[2] * 65536 + header[3] * 256 + header[4]

\* the writer.write calls _send_msg makes for a payload, each of them
\* followed by an await: one write of header + data, then drain()
frame_writes_split(data) == <<pack(Len(data)), data>>
frame_writes(data) == <<pack(Len(data)) \o data>>

\* _send_msg(writer, payload) up to its await: the frame is handed to the
\* transport, which appends it to what it has to send
_send_msg(t, w, data) ==
    /\ UNCHANGED notWriter
    /\ send_task[t].pc = "idle"
    /\ Len(frames_written["client._writer"]) + Len(frames_written["server._clients[0]"])
           < MaxSends
    /\ stream' = [stream EXCEPT ![w] = @ \o Head(frame_writes(data))]
    /\ send_task' = [send_task EXCEPT ![t] =
           [pc |-> "drain", writer |-> w, pending |-> Tail(frame_writes(data))]]
    /\ frames_written' = [frames_written EXCEPT ![w] = Append(@, data)]

\* writer.drain() returns to the task, whatever the other tasks wrote while
\* it was suspended; _send_msg goes on with what is left to write, or returns
drain(t) ==
    /\ UNCHANGED notWriter
    /\ send_task[t].pc = "drain"
    /\ IF send_task[t].pending = <<>>
       THEN /\ send_task' = [send_task EXCEPT ![t] = IdleSend]
            /\ UNCHANGED stream
       ELSE /\ stream' = [stream EXCEPT ![send_task[t].writer] =
                             @ \o Head(send_task[t].pending)]
            /\ send_task' = [send_task EXCEPT ![t].pending = Tail(@)]
    /\ UNCHANGED frames_written

NextWriter ==
    \/ \E t \in SendTasks, w \in Writers, data \in Payloads : _send_msg(t, w, data)
    \/ \E t \in SendTasks : drain(t)

\* what repeated _recv_msg calls read from the bytes of a stream, up to the
\* first frame that is not complete: readexactly(4), unpack,
\* readexactly(length)
RECURSIVE recv_frames(_)
recv_frames(bytes) ==
    IF Len(bytes) < 4 THEN <<>>
    ELSE LET length == unpack(SubSeq(bytes, 1, 4)) IN
         IF Len(bytes) < 4 + length THEN <<>>
         ELSE <<SubSeq(bytes, 5, 4 + length)>>
                  \o recv_frames(SubSeq(bytes, 5 + length, Len(bytes)))

\* C34: concurrent publish_inbound calls on one client, and concurrent
\* publish_outbound calls on the server, never interleave the bytes of two
\* frames on a stream: header and payload of a frame are written before the
\* writer can suspend, and the receiver decodes every frame intact, in the
\* order of the writes, without a lock on the callers' side.
C34_FramesNeverInterleave ==
    \A w \in Writers :
        /\ IsPrefix(recv_frames(stream[w]), frames_written[w])
        /\ (\A t \in SendTasks : send_task[t].writer = w => send_task[t].pending = <<>>)
               => recv_frames(stream[w]) = frames_written[w]

\* two tasks are suspended in drain() on the same writer, after frames of
\* different payloads, and a third frame was written before
C34_Witness ==
    \E w \in Writers :
        /\ \A t \in SendTasks : send_task[t].pc = "drain" /\ send_task[t].writer = w
        /\ Len(frames_written[w]) = 3
        /\ frames_written[w][2] # frames_written[w][3]

(***************************************************************************)
(* The typing indicators of the Telegram connector (channels/telegram.py): *)
(* the tasks _start_typing creates, the _typing_tasks dict, and send() and *)
(* stop(), which run on the same event loop as the update handlers.        *)
(***************************************************************************)
MaxTypingTasks == 3
TypingChats == {<<123>>, <<456>>}
TaskIds == 1..MaxTypingTasks
NoLoop == [chat_id |-> <<>>, state |-> "none"]

\* the connector after start(): the application is there, no chat is typing
InitTyping ==
    /\ _app = "Application"
    /\ _typing_tasks = [c \in TypingChats |-> NoId]
    /\ typing_loop = [id \in TaskIds |-> NoLoop]
    /\ stop_pc = "none"
    /\ typing_event = [op |-> "none", chat_id |-> <<>>]

\* the tasks created so far
created == {id \in TaskIds : typing_loop[id].state # "none"}

\* _stop_typing(chat_id) on the task table: the popped task is cancelled
\* when it is not done
stop_typing(loops, tasks, chat_id) ==
    [id \in TaskIds |->
        IF id = tasks[chat_id] /\ loops[id].state = "running"
        THEN [loops[id] EXCEPT !.state = "cancelled"]
        ELSE loops[id]]

\* _start_typing(chat_id), called by _on_message and _on_callback_query
\* after their awaits: the chat's task is stopped and a new one registered
_start_typing(chat_id) ==
    /\ UNCHANGED notTyping
    /\ stop_pc \in {"none", "stopping"}
    /\ Cardinality(created) < MaxTypingTasks
    /\ LET id == Cardinality(created) + 1 IN
       /\ typing_loop' = [stop_typing(typing_loop, _typing_tasks, chat_id) EXCEPT
                             ![id] = [chat_id |-> chat_id, state |-> "running"]]
       /\ _typing_tasks' = [_typing_tasks EXCEPT ![chat_id] = id]
    /\ typing_event' = [op |-> "_start_typing", chat_id |-> chat_id]
    /\ UNCHANGED <<_app, stop_pc>>

\* a typing task runs: a cancelled one ends with the CancelledError, a
\* running one ends when it finds self._app gone at "while self._app"
_typing_loop(id) ==
    /\ UNCHANGED notTyping
    /\ \/ typing_loop[id].state = "cancelled"
       \/ typing_loop[id].state = "running" /\ _app = None
    /\ typing_loop' = [typing_loop EXCEPT ![id].state = "done"]
    /\ typing_event' = [op |-> "_typing_loop", chat_id |-> typing_loop[id].chat_id]
    /\ UNCHANGED <<_app, _typing_tasks, stop_pc>>

\* TelegramChannel.send(msg) up to its first await: without application it
\* returns, else the typing indicator of msg.chat_id is stopped
TelegramChannel_send(chat_id) ==
    /\ UNCHANGED notTyping
    /\ typing_event' = [op |-> "send", chat_id |-> chat_id]
    /\ IF _app = None
       THEN UNCHANGED <<typing_loop, _typing_tasks>>
       ELSE /\ typing_loop' = stop_typing(typing_loop, _typing_tasks, chat_id)
            /\ _typing_tasks' = [_typing_tasks EXCEPT ![chat_id] = NoId]
    /\ UNCHANGED <<_app, stop_pc>>

RECURSIVE stop_all_typing(_, _, _)
\* "for chat_id in list(self._typing_tasks): self._stop_typing(chat_id)"
stop_all_typing(loops, tasks, chats) ==
    IF chats = {} THEN loops
    ELSE LET c == CHOOSE c \in chats : TRUE IN
         stop_all_typing(stop_typing(loops, tasks, c), tasks, chats \ {c})

\* TelegramChannel.stop() up to "await self._app.updater.stop()": every
\* typing task is stopped
TelegramChannel_stop ==
    /\ UNCHANGED notTyping
    /\ stop_pc = "none"
    /\ typing_loop' = stop_all_typing(typing_loop, _typing_tasks, TypingChats)
    /\ _typing_tasks' = [c \in TypingChats |-> NoId]
    /\ stop_pc' = IF _app = None THEN "done" ELSE "stopping"
    /\ typing_event' = [op |-> "stop", chat_id |-> <<>>]
    /\ UNCHANGED _app

\* the updater, the application and its shutdown have returned to stop():
\* self._app = None
stop_returns ==
    /\ UNCHANGED notTyping
    /\ stop_pc = "stopping"
    /\ _app' = None
    /\ stop_pc' = "done"
    /\ typing_event' = [op |-> "stop returns", chat_id |-> <<>>]
    /\ UNCHANGED <<typing_loop, _typing_tasks>>

NextTyping ==
    \/ \E c \in TypingChats : _start_typing(c)
    \/ \E id \in TaskIds : _typing_loop(id)
    \/ \E c \in TypingChats : TelegramChannel_send(c)
    \/ TelegramChannel_stop
    \/ stop_returns

\* the typing tasks of a chat that are running
RunningFor(c) ==
    {id \in TaskIds : typing_loop[id].chat_id = c /\ typing_loop[id].state = "running"}

\* at most one typing task runs per chat, and it is the registered one
C37_OnePerChat ==
    \A c \in TypingChats :
        /\ Cardinality(RunningFor(c)) <= 1
        /\ RunningFor(c) \subseteq {_typing_tasks[c]}

\* send() on a running connector leaves no typing task for the chat
C37_SendStopsTyping ==
    (typing_event.op = "send" /\ _app # None) =>
        /\ _typing_tasks[typing_event.chat_id] = NoId
        /\ RunningFor(typing_event.chat_id) = {}

\* once stop() has returned no typing task is registered or running
C37_NoneAfterStop ==
    stop_pc = "done" =>
        \A c \in TypingChats : _typing_tasks[c] = NoId /\ RunningFor(c) = {}

\* C37: at any time at most one typing-indicator task is registered and
\* running per chat_id: starting the indicator for a chat cancels the
\* previous task of that chat, and after send() has run for a chat on a
\* running connector, or after stop(), no typing task remains registered or
\* running for that chat.
C37_TypingTasksBounded ==
    /\ C37_OnePerChat
    /\ C37_SendStopsTyping
    /\ C37_NoneAfterStop

(***************************************************************************)
(* Specifications.                                                         *)
(***************************************************************************)
\* each specification explores one component from its possible
\* configurations, the other components being constructed and idle
InitForTelegram == InitTelegram /\ InitBus /\ IdleManager /\ IdleCompaction /\ InitEvents /\ InitReader /\ InitCron /\ IdleAgent /\ InitService /\ IdleSplit /\ IdleGateway /\ InitWriter /\ InitTyping
InitForBus == IdleTelegram /\ InitBus /\ IdleManager /\ IdleCompaction /\ InitEvents /\ InitReader /\ InitCron /\ IdleAgent /\ InitService /\ IdleSplit /\ IdleGateway /\ InitWriter /\ InitTyping
InitForManager == IdleTelegram /\ InitBus /\ InitManager /\ IdleCompaction /\ InitEvents /\ InitReader /\ InitCron /\ IdleAgent /\ InitService /\ IdleSplit /\ IdleGateway /\ InitWriter /\ InitTyping
InitForCompaction == IdleTelegram /\ InitBus /\ IdleManager /\ InitCompaction /\ InitEvents /\ InitReader /\ InitCron /\ IdleAgent /\ InitService /\ IdleSplit /\ IdleGateway /\ InitWriter /\ InitTyping
InitForEvents == IdleTelegram /\ InitBus /\ IdleManager /\ IdleCompaction /\ InitEvents /\ InitReader /\ InitCron /\ IdleAgent /\ InitService /\ IdleSplit /\ IdleGateway /\ InitWriter /\ InitTyping
InitForReader == IdleTelegram /\ InitBus /\ IdleManager /\ IdleCompaction /\ InitEvents /\ InitReader /\ InitCron /\ IdleAgent /\ InitService /\ IdleSplit /\ IdleGateway /\ InitWriter /\ InitTyping
InitForAgent == IdleTelegram /\ InitBus /\ IdleManager /\ IdleCompaction /\ InitEvents /\ InitReader /\ InitCron /\ IdleAgent /\ InitService /\ IdleSplit /\ IdleGateway /\ InitWriter /\ InitTyping
InitForService == IdleTelegram /\ InitBus /\ IdleManager /\ IdleCompaction /\ InitEvents /\ InitReader /\ InitCron /\ IdleAgent /\ InitService /\ IdleSplit /\ IdleGateway /\ InitWriter /\ InitTyping
InitForSplit == IdleTelegram /\ InitBus /\ IdleManager /\ IdleCompaction /\ InitEvents /\ InitReader /\ InitCron /\ IdleAgent /\ InitService /\ InitSplit /\ IdleGateway /\ InitWriter /\ InitTyping
InitForGateway == IdleTelegram /\ InitBus /\ IdleManager /\ IdleCompaction /\ InitEvents /\ InitReader /\ InitCron /\ IdleAgent /\ InitService /\ IdleSplit /\ InitGateway /\ InitWriter /\ InitTyping
InitForWriter == IdleTelegram /\ InitBus /\ IdleManager /\ IdleCompaction /\ InitEvents /\ InitReader /\ InitCron /\ IdleAgent /\ InitService /\ IdleSplit /\ IdleGateway /\ InitWriter /\ InitTyping
InitForTyping == IdleTelegram /\ InitBus /\ IdleManager /\ IdleCompaction /\ InitEvents /\ InitReader /\ InitCron /\ IdleAgent /\ InitService /\ IdleSplit /\ IdleGateway /\ InitWriter /\ InitTyping
InitForSplitLoop == IdleTelegram /\ InitBus /\ IdleManager /\ IdleCompaction /\ InitEvents /\ InitReader /\ InitCron /\ IdleAgent /\ InitService /\ IdleSplit /\ IdleGateway /\ InitWriter /\ InitTyping
InitForCron == IdleTelegram /\ InitBus /\ IdleManager /\ IdleCompaction /\ InitEvents /\ InitReader /\ InitCron /\ IdleAgent /\ InitService /\ IdleSplit /\ IdleGateway /\ InitWriter /\ InitTyping

SpecTelegram == InitForTelegram /\ [][NextTelegram]_vars
SpecBusIn == InitForBus /\ [][NextBusIn]_vars
SpecBusOut == InitForBus /\ [][NextBusOut]_vars
SpecBusRaw == InitForBus /\ [][NextBusRaw]_vars
SpecManager == InitForManager /\ [][NextManager]_vars
SpecCompaction == InitForCompaction /\ [][NextCompaction]_vars
SpecEvents == InitForEvents /\ [][NextEvents]_vars
SpecReader == InitForReader /\ [][NextReader]_vars
SpecCron == InitForCron /\ [][NextCron]_vars
SpecCronModes == InitForCron /\ [][NextCronModes]_vars
SpecAgent == InitForAgent /\ [][NextAgent]_vars
SpecService == InitForService /\ [][NextService]_vars
SpecSplit == InitForSplit /\ [][NextSplit]_vars
\* a call of _split_message runs on without being suspended
FairSpecSplitLoop == InitForSplitLoop /\ [][NextSplitLoop]_vars /\ WF_vars(NextSplitLoop)
SpecGateway == InitForGateway /\ [][NextGateway]_vars
SpecWriter == InitForWriter /\ [][NextWriter]_vars
SpecTyping == InitForTyping /\ [][NextTyping]_vars

\* the gateway's event loop keeps running the dispatcher task and stop_all,
\* and every channel.send() and channel.stop() comes back
FairSpecShutdown ==
    /\ InitForManager
    /\ [][NextShutdown]_vars
    /\ WF_vars(_dispatch_outbound)
    /\ WF_vars(\E raised \in BOOLEAN : send_done(raised))
    /\ WF_vars(dispatch_cancelled)
    /\ WF_vars(\E raised \in BOOLEAN : channel_stop(raised))

\* the agent's event loop keeps running the connection handlers and the
\* consumer of the inbound queue
FairSpecBusIn ==
    /\ SpecBusIn
    /\ \A c \in Clients : WF_vars(handle_client_start(c))
    /\ \A c \in Clients : WF_vars(handle_client_recv(c))
    /\ WF_vars(consume_inbound)

====
